---- MODULE Spec2Model ----
(***************************************************************************)
(* State-machine model of the emergency alert pipeline of voice2eye:       *)
(*   backend/emergency/emergency_triggers.py      EmergencyTriggerSystem   *)
(*   backend/emergency/emergency_alert_system.py  EmergencyAlertSystem     *)
(*   backend/emergency/location_services.py       LocationService          *)
(*   backend/emergency/message_sender.py          MessageSender            *)
(* Threads are modelled one Python statement group at a time: the caller   *)
(* threads (speech callback, gesture callback, API caller) and one         *)
(* confirmation-loop thread per accepted trigger.                          *)
(***************************************************************************)
EXTENDS Integers, Sequences, FiniteSets, TLC

VARIABLES
    \* ---- configuration fixed at construction
    callers,                \* the threads that call the public operations
    wiring,                 \* "orchestrator": EmergencyAlertSystem registered its handlers
                            \* "standalone":   caller-supplied callbacks on the trigger system
    \* ---- clock (time.time(), whole seconds)
    now,
    \* ---- EmergencyTriggerSystem fields
    is_active,
    emergency_start_time,   \* -1 is None
    emergency_confirmed,
    emergency_cancelled,
    \* ---- caller threads
    tpc,                    \* position of each caller thread
    tev,                    \* the EmergencyEvent type the thread is handling
    twin,                   \* index in loops of the window the thread opened
    tret,                   \* the last return of a trigger_* call: who, value, rejected
    tloc,                   \* location local of _handle_emergency_trigger
    \* ---- confirmation windows (one record per accepted trigger)
    loops,
    \* ---- EmergencyAlertSystem fields
    alerts,                 \* the EmergencyAlert objects, by creation order
    current_alert,          \* 0 is None, else an index in alerts
    alert_history,          \* list of references (indices in alerts)
    \* ---- LocationService
    cache_file,             \* <<>> when emergency/location_cache.json is absent
    loc_result,             \* what the last get_current_location returned
    loc_queries,            \* provider requests made by the last get_current_location
    \* ---- MessageSender
    contacts,
    contacts_file,
    message_templates,
    templates_file,
    twilio_client,
    twilio_phone_number,
    msg_results,            \* what the last send_emergency_message returned
    \* ---- observation of the run (history variables)
    obs

trigVars  == <<is_active, emergency_start_time, emergency_confirmed, emergency_cancelled>>
thrVars   == <<tpc, tev, twin, tret, tloc>>
alertVars == <<alerts, current_alert, alert_history>>
locVars   == <<cache_file, loc_result, loc_queries>>
msgVars   == <<contacts, contacts_file, message_templates, templates_file,
               twilio_client, twilio_phone_number, msg_results>>
cfgVars   == <<callers, wiring>>
vars      == <<callers, wiring, now, is_active, emergency_start_time,
               emergency_confirmed, emergency_cancelled, tpc, tev, twin, tret, tloc,
               loops, alerts, current_alert, alert_history, cache_file, loc_result,
               loc_queries, contacts, contacts_file, message_templates,
               templates_file, twilio_client, twilio_phone_number, msg_results, obs>>

(***************************************************************************)
(* Bounds of the model                                                     *)
(***************************************************************************)
MaxAlerts == 2      \* accepted triggers per run
MaxTicks == 4       \* steps of the clock in a run of the location service
MaxContacts == 2    \* length of the contact list

(***************************************************************************)
(* Program constants                                                       *)
(***************************************************************************)
ConfirmationTimeout == 10
CacheDuration == 3600

NoTime == -1
NoneOpt == <<>>
Some(x) == <<x>>

AllCallers == {"speech", "gesture", "api"}

(***************************************************************************)
(* LocationService (location_services.py)                                  *)
(***************************************************************************)
\* A coordinate field of a provider's JSON answer: a number, absent from the
\* answer, or a value float() rejects.
NumC(v) == [k |-> "num", v |-> v]
MissingC == [k |-> "missing", v |-> 0]
BadC == [k |-> "bad", v |-> 0]

\* data.get(key, 0) followed by float(): the default 0 stands in for an absent key.
FloatOk(c) == c.k # "bad"
FloatOf(c) == IF c.k = "num" THEN c.v ELSE 0

\* services list of _get_ip_location, in its order
Services == <<"ip-api.com", "ipapi.co", "api.ipify.org">>

LocationData(lat, lon, addr, t) ==
    [latitude |-> lat, longitude |-> lon, address |-> addr,
     accuracy |-> 8, timestamp |-> t, source |-> "ip"]

\* _parse_ip_response: an exception inside (float of a bad value) gives None
ParseIpResponse(data, service_url, t) ==
    IF service_url = "ip-api.com"
    THEN IF data.status = "success"
         THEN IF FloatOk(data.lat) /\ FloatOk(data.lon)
              THEN Some(LocationData(FloatOf(data.lat), FloatOf(data.lon), data.ip, t))
              ELSE NoneOpt
         ELSE NoneOpt
    ELSE IF service_url = "ipapi.co"
    THEN IF FloatOk(data.lat) /\ FloatOk(data.lon)
         THEN Some(LocationData(FloatOf(data.lat), FloatOf(data.lon), data.ip, t))
         ELSE NoneOpt
    ELSE NoneOpt

\* One iteration of the for loop of _get_ip_location on service number i:
\* requests.get raising or a status other than 200 is resp.ok = FALSE.
TryService(resps, i, t) ==
    IF resps[i].ok THEN ParseIpResponse(resps[i], Services[i], t) ELSE NoneOpt

\* a lookup in which the last service whose answer parses wins
IpLocationLastWins(resps, i, t) ==
    LET yields == {k \in i..Len(Services) : TryService(resps, k, t) # NoneOpt}
    IN  IF yields = {} THEN [loc |-> NoneOpt, nq |-> Len(Services)]
        ELSE LET k == CHOOSE m \in yields : \A n \in yields : n <= m
             IN  [loc |-> TryService(resps, k, t), nq |-> k]

\* _get_ip_location: the first service whose answer parses wins; nq counts
\* the requests made.
RECURSIVE IpLocationFrom(_, _, _)
IpLocationFrom(resps, i, t) ==
    IF i > Len(Services) THEN [loc |-> NoneOpt, nq |-> Len(Services)]
    ELSE IF TryService(resps, i, t) # NoneOpt
         THEN [loc |-> TryService(resps, i, t), nq |-> i]
         ELSE IpLocationFrom(resps, i + 1, t)

GetIpLocation(resps, t) == IpLocationFrom(resps, 1, t)

\* a validity test that still accepts an entry exactly cache_duration old
IsCacheValidInclusive(location, t) == t - location.timestamp <= CacheDuration

\* _is_cache_valid
IsCacheValid(location, t) == t - location.timestamp < CacheDuration

\* validate_location_accuracy (never called by get_current_location)
ValidateLocationAccuracy(location) ==
    /\ -90 <= location.latitude /\ location.latitude <= 90
    /\ -180 <= location.longitude /\ location.longitude <= 180
    /\ ~(location.latitude = 0 /\ location.longitude = 0)
    /\ location.accuracy >= 5

\* get_current_location: result, the cache file afterwards, requests made
GetCurrentLocation(cache, resps, t) ==
    IF cache # NoneOpt /\ IsCacheValid(cache[1], t)
    THEN [result |-> cache, cache |-> cache, nq |-> 0]
    ELSE LET ip == GetIpLocation(resps, t)
         IN  IF ip.loc # NoneOpt
             THEN [result |-> ip.loc, cache |-> ip.loc, nq |-> ip.nq]
             ELSE [result |-> NoneOpt, cache |-> cache, nq |-> ip.nq]

\* Provider answers the model draws from
FailResp == [ok |-> FALSE, status |-> "fail", lat |-> MissingC, lon |-> MissingC, ip |-> ""]
LatIn == {NumC(45), NumC(91), MissingC, BadC}
LonIn == {NumC(7), MissingC}
JsonResps(statuses) ==
    {[ok |-> TRUE, status |-> s, lat |-> a, lon |-> b, ip |-> "203.0.113.9"] :
        s \in statuses, a \in LatIn, b \in LonIn}
\* ip-api.com reports a status; ipapi.co has no such field
IpApiResps == {FailResp} \cup JsonResps({"success", "fail"})
IpapiCoResps == {FailResp} \cup JsonResps({"fail"})
IpifyResps == {FailResp,
               [ok |-> TRUE, status |-> "fail", lat |-> MissingC, lon |-> MissingC,
                ip |-> "203.0.113.9"]}
ProviderAnswers == {<<a, b, c>> : a \in IpApiResps, b \in IpapiCoResps, c \in IpifyResps}

(***************************************************************************)
(* MessageSender (message_sender.py)                                       *)
(***************************************************************************)
Contact(priority, enabled) == [priority |-> priority, enabled |-> enabled]

MessageTemplate(id, body, variables) ==
    [template_id |-> id, body |-> body, variables |-> variables]

\* A message body is a sequence of pieces of text; the piece "{x}" is the
\* placeholder of variable x.
Placeholder(var) == "{" \o var \o "}"

\* default_templates of _create_default_templates, as written to the file
DefaultTemplates ==
    <<MessageTemplate("emergency_alert",
        <<"EMERGENCY ALERT Location: ", "{location}", " Time: ", "{timestamp}",
          " Trigger: ", "{trigger_type}", " Please check on the user immediately!">>,
        <<"location", "timestamp", "trigger_type">>),
      MessageTemplate("location_update",
        <<"Current location: ", "{location}", " Coordinates: ", "{coordinates}",
          " Time: ", "{timestamp}">>,
        <<"location", "coordinates", "timestamp">>)>>

\* default_contacts of _create_default_contacts, as written to the file
DefaultContacts == <<Contact(1, FALSE), Contact(2, FALSE)>>

\* The dict built by the loop of _load_message_templates: a later template of
\* the same id replaces an earlier one.
RECURSIVE TemplateDict(_)
TemplateDict(list) ==
    IF list = <<>> THEN <<>>
    ELSE LET front == TemplateDict(SubSeq(list, 1, Len(list) - 1))
             last == list[Len(list)]
         IN  [k \in DOMAIN front \cup {last.template_id} |->
                 IF k = last.template_id THEN last ELSE front[k]]

\* _load_message_templates: when the file is absent the defaults are written
\* to the file and the dict in memory stays empty.
LoadMessageTemplates(file) ==
    IF file = NoneOpt
    THEN [templates |-> <<>>, file |-> Some(DefaultTemplates)]
    ELSE [templates |-> TemplateDict(file[1]), file |-> file]

\* _load_contacts: when the file is absent the defaults are written to the
\* file and the list in memory stays empty.
LoadContacts(file) ==
    IF file = NoneOpt
    THEN [contacts |-> <<>>, file |-> Some(DefaultContacts)]
    ELSE [contacts |-> file[1], file |-> file]

\* _prepare_emergency_variables: the dict in insertion order
PrepareEmergencyVariables(location_data, trigger_type) ==
    <<  <<"timestamp", "2026-01-01 00:00:00">>,
        <<"trigger_type", trigger_type>>,
        <<"location", IF location_data # NoneOpt THEN location_data[1].address
                      ELSE "Location unknown">>,
        <<"coordinates", IF location_data # NoneOpt THEN "lat, lon" ELSE "N/A">> >>

\* str.replace of one placeholder in the body
ReplaceVar(body, var, value) ==
    [i \in DOMAIN body |-> IF body[i] = Placeholder(var) THEN value ELSE body[i]]

\* a loop that stops after the first variable
RenderFirstOnly(body, variables, i) ==
    IF i > Len(variables) THEN body
    ELSE ReplaceVar(body, variables[i][1], variables[i][2])

\* the for loop of _send_message_to_contact over variables.items()
RECURSIVE RenderFrom(_, _, _)
RenderFrom(body, variables, i) ==
    IF i > Len(variables) THEN body
    ELSE RenderFrom(ReplaceVar(body, variables[i][1], variables[i][2]), variables, i + 1)

Render(template, variables) == RenderFrom(template.body, variables, 1)

MessageResult(success, message_id, error, delivery_status, t, who, body) ==
    [success |-> success, message_id |-> message_id, error |-> error,
     delivery_status |-> delivery_status, timestamp |-> t,
     to |-> who, body |-> body]      \* to, body: what was handed to the channel

\* a gateway call that turns to the record-only channel when it fails
SendViaTwilioFallsBack(who, message_body, gw, t) ==
    IF gw = "ok"
    THEN MessageResult(TRUE, "SM_sid", "None", "queued", t, who, message_body)
    ELSE MessageResult(TRUE, "fallback", "None", "sent", t, who, message_body)

\* _send_via_twilio: the gateway accepts the message, or raises TwilioException,
\* which is caught here and gives a failure result
SendViaTwilio(who, message_body, gw, t) ==
    IF gw = "ok"
    THEN MessageResult(TRUE, "SM_sid", "None", "queued", t, who, message_body)
    ELSE MessageResult(FALSE, "None", "TwilioException", "failed", t, who, message_body)

\* _send_via_fallback
SendViaFallback(who, message_body, t) ==
    MessageResult(TRUE, "fallback", "None", "sent", t, who, message_body)

\* _send_message_to_contact: the gateway is used when both the client and the
\* sender number are set; an exception other than TwilioException leaves
\* _send_via_twilio and is caught by the except of line 292
SendMessageToContact(who, template, variables, client, phone_number, gw, t) ==
    IF client /\ phone_number
    THEN IF gw = "error"
         THEN MessageResult(FALSE, "None", "Exception", "failed", t, who,
                            Render(template, variables))
         ELSE SendViaTwilio(who, Render(template, variables), gw, t)
    ELSE SendViaFallback(who, Render(template, variables), t)

\* indices of the enabled contacts, in list order
RECURSIVE EnabledFrom(_, _)
EnabledFrom(cs, i) ==
    IF i > Len(cs) THEN <<>>
    ELSE IF cs[i].enabled THEN <<i>> \o EnabledFrom(cs, i + 1)
         ELSE EnabledFrom(cs, i + 1)

\* send_emergency_message; gw[i] is what the gateway does with contact i
SendEmergencyMessage(cs, templates, client, phone_number, location_data, trigger_type, gw, t) ==
    IF "emergency_alert" \notin DOMAIN templates
    THEN <<>>
    ELSE LET variables == PrepareEmergencyVariables(location_data, trigger_type)
             en == EnabledFrom(cs, 1)
         IN  [j \in 1..Len(en) |->
                 SendMessageToContact(en[j], templates["emergency_alert"], variables,
                                      client, phone_number, gw[en[j]], t)]

GatewayOutcomes == {"ok", "twilio_error", "error"}

(***************************************************************************)
(* EmergencyTriggerSystem (emergency_triggers.py)                          *)
(***************************************************************************)
\* Texts are sequences of characters, so that lower(), strip() and the
\* substring test of trigger_voice_emergency are computed, not assumed.
Lower(c) ==
    CASE c = "H" -> "h" [] c = "E" -> "e" [] c = "L" -> "l" [] c = "P" -> "p"
      [] c = "S" -> "s" [] c = "O" -> "o" [] OTHER -> c

LowerText(text) == [i \in DOMAIN text |-> Lower(text[i])]

RECURSIVE LStrip(_)
LStrip(text) ==
    IF text # <<>> /\ Head(text) = " " THEN LStrip(Tail(text)) ELSE text

RECURSIVE RStrip(_)
RStrip(text) ==
    IF text # <<>> /\ text[Len(text)] = " "
    THEN RStrip(SubSeq(text, 1, Len(text) - 1)) ELSE text

Strip(text) == RStrip(LStrip(text))

\* keyword in text_lower
Contains(sub, text) ==
    \E i \in 1..(Len(text) - Len(sub) + 1) : SubSeq(text, i, i + Len(sub) - 1) = sub

\* self.emergency_keywords
EmergencyKeywords ==
    << <<"h","e","l","p">>,
       <<"e","m","e","r","g","e","n","c","y">>,
       <<"s","o","s">>,
       <<"a","s","s","i","s","t">>,
       <<"u","r","g","e","n","t">>,
       <<"d","a","n","g","e","r">> >>

\* a test for the whole text being a keyword
IsEmergencyKeyword(text) ==
    \E k \in DOMAIN EmergencyKeywords : EmergencyKeywords[k] = Strip(LowerText(text))

\* the for loop over the keywords of trigger_voice_emergency
HasEmergencyKeyword(text) ==
    \E k \in DOMAIN EmergencyKeywords :
        Contains(EmergencyKeywords[k], Strip(LowerText(text)))

\* gesture_data.get('gesture_type') == 'two_fingers'
IsEmergencyGesture(gesture_type) == gesture_type = "two_fingers"

\* Inputs the callers draw from
Texts ==
    { <<"H","e","l","p"," ","m","e">>,
      <<" ","S","O","S"," ">>,
      <<"u","n","h","e","l","p","f","u","l">>,
      <<"h","e","l","l","o">>,
      <<"h","e","l"," ","p">> }
GestureTypes == {"two_fingers", "fist", "None"}

\* Which thread calls which operation: the speech callback and the gesture
\* callback of main.py each call one trigger (main.py:146, main.py:207); the
\* API caller calls the rest, and every operation when it is the only caller.
CanCall(t, op) ==
    \/ t = "api" /\ (callers = {"api"} \/ op \notin {"voice", "gesture"})
    \/ t = "speech" /\ op = "voice"
    \/ t = "gesture" /\ op = "gesture"

Event(etype, t) == [emergency_type |-> etype, timestamp |-> t]
NoEvent == Event("none", NoTime)

\* first: which of confirm_emergency / cancel_emergency was called first while
\* the window was open ("stale": such a call was under way when it opened);
\* calls: which of the two were called while it was open
Window(etype, stale) ==
    [pc |-> "unborn", start_time |-> NoTime, elapsed |-> 0, emergency_type |-> etype,
     called |-> <<>>, resolution |-> "none", raised |-> FALSE,
     first |-> IF stale THEN "stale" ELSE "none", calls |-> {}]

\* the thread of a window has ended: its locals are gone
Ended(w) ==
    [w EXCEPT !.pc = "done", !.start_time = NoTime, !.elapsed = 0,
              !.emergency_type = "none", !.raised = FALSE, !.first = "none",
              !.calls = {}]

\* windows whose resolution is still open
Unresolved(w) == w.pc \in {"unborn", "begin", "time", "conf", "canc", "tout"}
\* windows whose loop thread is running
Running(w) == w.pc \notin {"unborn", "done"}
Polling(w) == w.pc \in {"time", "conf", "canc", "tout"}

Idle(t) == t \in callers /\ tpc[t] = "idle"

\* new work is admitted while the run is within its bounds
CanStart ==
    Len(loops) + Cardinality({u \in callers : tpc[u] = "h_active"}) < MaxAlerts

\* trigger_* returns value; rejected: the busy check of line 134 refused it
Return(t, value, rejected) ==
    /\ tpc' = [tpc EXCEPT ![t] = "idle"]
    /\ tev' = [tev EXCEPT ![t] = NoEvent]
    /\ twin' = [twin EXCEPT ![t] = 0]
    /\ tloc' = [tloc EXCEPT ![t] = NoneOpt]
    /\ tret' = [who |-> t, value |-> value, rejected |-> rejected]

\* a busy check that refuses only while the loop is still waiting for an answer
HandleUnlessWaiting(t, etype) ==
    /\ IF is_active /\ \E i \in DOMAIN loops : Unresolved(loops[i])
       THEN Return(t, TRUE, TRUE)
       ELSE /\ tpc' = [tpc EXCEPT ![t] = "h_active"]
            /\ tev' = [tev EXCEPT ![t] = Event(etype, now)]
            /\ UNCHANGED <<twin, tloc, tret>>
    /\ UNCHANGED <<cfgVars, now, trigVars, loops, alertVars, locVars, msgVars, obs>>

\* _handle_emergency_trigger, line 134: the busy check. A rejected trigger
\* returns None to trigger_*, which then returns True.
HandleEmergencyTrigger(t, etype) ==
    /\ IF is_active
       THEN Return(t, TRUE, TRUE)
       ELSE /\ tpc' = [tpc EXCEPT ![t] = "h_active"]
            /\ tev' = [tev EXCEPT ![t] = Event(etype, now)]
            /\ UNCHANGED <<twin, tloc, tret>>
    /\ UNCHANGED <<cfgVars, now, trigVars, loops, alertVars, locVars, msgVars, obs>>

\* trigger_voice_emergency
TriggerVoiceEmergency(t, text) ==
    /\ Idle(t) /\ CanCall(t, "voice") /\ CanStart
    /\ IF HasEmergencyKeyword(text)
       THEN HandleEmergencyTrigger(t, "voice")
       ELSE /\ Return(t, FALSE, FALSE)
            /\ UNCHANGED <<cfgVars, now, trigVars, loops, alertVars, locVars, msgVars, obs>>

\* trigger_gesture_emergency
TriggerGestureEmergency(t, gesture_type) ==
    /\ Idle(t) /\ CanCall(t, "gesture") /\ CanStart
    /\ IF IsEmergencyGesture(gesture_type)
       THEN HandleEmergencyTrigger(t, "gesture")
       ELSE /\ Return(t, FALSE, FALSE)
            /\ UNCHANGED <<cfgVars, now, trigVars, loops, alertVars, locVars, msgVars, obs>>

\* trigger_manual_emergency
TriggerManualEmergency(t) ==
    /\ Idle(t) /\ CanCall(t, "manual") /\ CanStart
    /\ HandleEmergencyTrigger(t, "manual")

\* some thread is between the check and the assignment of confirm/cancel
CallInProgress == \E u \in callers : tpc[u] \in {"c_set", "x_set"}

\* _handle_emergency_trigger, line 138: self.is_active = True
SetActive(t) ==
    /\ t \in callers /\ tpc[t] = "h_active"
    /\ is_active' = TRUE
    /\ loops' = Append(loops, Window(tev[t].emergency_type, CallInProgress))
    /\ twin' = [twin EXCEPT ![t] = Len(loops) + 1]
    /\ tpc' = [tpc EXCEPT ![t] = "h_rest"]
    /\ UNCHANGED <<cfgVars, now, emergency_start_time, emergency_confirmed,
                   emergency_cancelled, tev, tret, tloc, alertVars, locVars, msgVars, obs>>

\* _handle_emergency_trigger, lines 139-141
SetWindowState(t) ==
    /\ t \in callers /\ tpc[t] = "h_rest"
    /\ emergency_start_time' = now
    /\ emergency_confirmed' = FALSE
    /\ emergency_cancelled' = FALSE
    /\ tpc' = [tpc EXCEPT ![t] = IF wiring = "standalone" THEN "cb_emergency"
                                  ELSE "a_locate"]
    /\ UNCHANGED <<cfgVars, now, is_active, tev, twin, tret, tloc, loops, alertVars,
                   locVars, msgVars, obs>>

\* _start_emergency_confirmation, lines 157-158 with a caller-supplied
\* on_emergency callback: when it raises, the except of line 168 is taken and
\* the confirmation thread is never started.
OnEmergencyCallback(t, raises) ==
    /\ t \in callers /\ tpc[t] = "cb_emergency"
    /\ obs' = [obs EXCEPT !.on_emergency = @ + 1]
    /\ IF raises
       THEN Return(t, TRUE, FALSE)
       ELSE /\ tpc' = [tpc EXCEPT ![t] = "start_thread"]
            /\ UNCHANGED <<tev, twin, tloc, tret>>
    /\ UNCHANGED <<cfgVars, now, trigVars, loops, alertVars, locVars, msgVars>>

\* _start_emergency_confirmation, lines 161-166: the thread is started and
\* trigger_* returns True.
StartThread(t) ==
    /\ t \in callers /\ tpc[t] = "start_thread"
    /\ loops' = [loops EXCEPT ![twin[t]].pc = "begin"]
    /\ Return(t, TRUE, FALSE)
    /\ UNCHANGED <<cfgVars, now, trigVars, alertVars, locVars, msgVars, obs>>

\* A call of confirm_emergency or cancel_emergency reaches every window still
\* open: it is noted on them (first: which of the two was called first).
Touch(ws, what) ==
    [i \in DOMAIN ws |->
        IF Unresolved(ws[i])
        THEN [ws[i] EXCEPT !.first = IF @ = "none" THEN what ELSE @,
                           !.calls = @ \cup {what}]
        ELSE ws[i]]

\* a confirm_emergency that sets the flag whatever the test says
ConfirmUntested(t, otherwise) ==
    /\ Idle(t) /\ CanCall(t, "confirm")
    /\ loops' = Touch(loops, "confirm")
    /\ tpc' = [tpc EXCEPT ![t] = "c_set"]
    /\ UNCHANGED <<cfgVars, now, trigVars, tev, twin, tret, tloc, alertVars, locVars,
                   msgVars, obs>>

\* confirm_emergency, line 213: the test. When it fails the caller is at
\* `otherwise`: the warning of line 217, or already back at rest where the
\* return of the call is not followed.
ConfirmTest(t, otherwise) ==
    /\ Idle(t) /\ CanCall(t, "confirm")
    /\ loops' = Touch(loops, "confirm")
    /\ tpc' = [tpc EXCEPT ![t] = IF is_active /\ ~emergency_confirmed
                                  THEN "c_set" ELSE otherwise]
    /\ UNCHANGED <<cfgVars, now, trigVars, tev, twin, tret, tloc, alertVars, locVars,
                   msgVars, obs>>

ConfirmEmergency(t) == ConfirmTest(t, "idle")

\* confirm_emergency, line 214: self.emergency_confirmed = True
ConfirmSet(t) ==
    /\ t \in callers /\ tpc[t] = "c_set"
    /\ emergency_confirmed' = TRUE
    /\ tpc' = [tpc EXCEPT ![t] = "idle"]
    /\ UNCHANGED <<cfgVars, now, is_active, emergency_start_time, emergency_cancelled,
                   tev, twin, tret, tloc, loops, alertVars, locVars, msgVars, obs>>

\* cancel_emergency, line 225: the test; `otherwise` as for ConfirmTest, the
\* warning being line 229
CancelTest(t, otherwise) ==
    /\ Idle(t) /\ CanCall(t, "cancel")
    /\ loops' = Touch(loops, "cancel")
    /\ tpc' = [tpc EXCEPT ![t] = IF is_active /\ ~emergency_cancelled
                                  THEN "x_set" ELSE otherwise]
    /\ UNCHANGED <<cfgVars, now, trigVars, tev, twin, tret, tloc, alertVars, locVars,
                   msgVars, obs>>

CancelEmergency(t) == CancelTest(t, "idle")

\* a cancel_emergency that also marks the current alert as cancelled
CancelSetMarksAlert(t) ==
    /\ t \in callers /\ tpc[t] = "x_set"
    /\ emergency_cancelled' = TRUE
    /\ tpc' = [tpc EXCEPT ![t] = "idle"]
    /\ IF current_alert = 0 THEN alerts' = alerts
       ELSE alerts' = [alerts EXCEPT ![current_alert].status = "cancelled"]
    /\ UNCHANGED <<cfgVars, now, is_active, emergency_start_time, emergency_confirmed,
                   tev, twin, tret, tloc, loops, current_alert, alert_history,
                   locVars, msgVars, obs>>

\* cancel_emergency, line 226: self.emergency_cancelled = True
CancelSet(t) ==
    /\ t \in callers /\ tpc[t] = "x_set"
    /\ emergency_cancelled' = TRUE
    /\ tpc' = [tpc EXCEPT ![t] = "idle"]
    /\ UNCHANGED <<cfgVars, now, is_active, emergency_start_time, emergency_confirmed,
                   tev, twin, tret, tloc, loops, alertVars, locVars, msgVars, obs>>

\* confirm_emergency / cancel_emergency, lines 217 and 229: the warning is
\* logged and the call returns
NoActiveEmergency(t) ==
    /\ t \in callers /\ tpc[t] \in {"c_warn", "x_warn"}
    /\ tpc' = [tpc EXCEPT ![t] = "idle"]
    /\ UNCHANGED <<cfgVars, now, trigVars, tev, twin, tret, tloc, loops, alertVars,
                   locVars, msgVars, obs>>

(***************************************************************************)
(* _emergency_confirmation_loop: the thread of window i                    *)
(***************************************************************************)
LoopVarsUnchanged ==
    UNCHANGED <<cfgVars, now, trigVars, thrVars, alertVars, locVars, msgVars, obs>>

\* line 177: start_time = time.time()
LoopBegin(i) ==
    /\ i \in DOMAIN loops /\ loops[i].pc = "begin"
    /\ loops' = [loops EXCEPT ![i].pc = "time", ![i].start_time = now]
    /\ LoopVarsUnchanged

\* lines 179-180: elapsed = time.time() - start_time
LoopReadTime(i) ==
    /\ i \in DOMAIN loops /\ loops[i].pc = "time"
    /\ loops' = [loops EXCEPT ![i].pc = "conf", ![i].elapsed = now - loops[i].start_time]
    /\ LoopVarsUnchanged

\* The loop has chosen its resolution and invokes the callback: with the
\* orchestrator's handlers registered the thread enters the handler, with
\* caller-supplied callbacks it runs the callback.
Resolve(w, how) ==
    LET cb == IF how = "cancelled" THEN "on_cancellation" ELSE "on_confirmation"
    IN  [w EXCEPT !.resolution = how,
                  !.called = Append(@, cb),
                  !.pc = IF wiring = "standalone" THEN "callback"
                         ELSE IF how = "cancelled" THEN "x_mark" ELSE "k_check"]

\* lines 183-187: if self.emergency_confirmed
LoopCheckConfirmed(i) ==
    /\ i \in DOMAIN loops /\ loops[i].pc = "conf"
    /\ loops' = [loops EXCEPT ![i] = IF emergency_confirmed THEN Resolve(@, "confirmed")
                                     ELSE [@ EXCEPT !.pc = "canc"]]
    /\ LoopVarsUnchanged

\* lines 190-194: if self.emergency_cancelled
LoopCheckCancelled(i) ==
    /\ i \in DOMAIN loops /\ loops[i].pc = "canc"
    /\ loops' = [loops EXCEPT ![i] = IF emergency_cancelled THEN Resolve(@, "cancelled")
                                     ELSE [@ EXCEPT !.pc = "tout"]]
    /\ LoopVarsUnchanged

\* a timeout test that is true at the first poll
TimedOutAtOnce(elapsed) == elapsed >= 0

\* the timeout test of line 197
TimedOut(elapsed) == elapsed >= ConfirmationTimeout

\* lines 197-203: if elapsed >= self.confirmation_timeout, else sleep(0.1)
LoopCheckTimeout(i) ==
    /\ i \in DOMAIN loops /\ loops[i].pc = "tout"
    /\ loops' = [loops EXCEPT ![i] = IF TimedOut(@.elapsed) THEN Resolve(@, "timeout")
                                     ELSE [@ EXCEPT !.pc = "time", !.elapsed = 0]]
    /\ LoopVarsUnchanged

\* a caller-supplied resolution callback runs; when it raises, the except of
\* line 205 logs it
ResolutionCallback(i, raises) ==
    /\ i \in DOMAIN loops /\ loops[i].pc = "callback"
    /\ loops' = [loops EXCEPT ![i].pc = "reset", ![i].raised = raises]
    /\ LoopVarsUnchanged

\* a reset that leaves is_active as it is
ResetKeepsActive(i) ==
    /\ i \in DOMAIN loops /\ loops[i].pc = "reset"
    /\ emergency_start_time' = NoTime
    /\ emergency_confirmed' = FALSE
    /\ emergency_cancelled' = FALSE
    /\ loops' = [loops EXCEPT ![i] = Ended(@)]
    /\ UNCHANGED <<cfgVars, now, is_active, thrVars, alertVars, locVars, msgVars, obs>>

\* _reset_emergency_state, called from the finally of line 207
ResetEmergencyState(i) ==
    /\ i \in DOMAIN loops /\ loops[i].pc = "reset"
    /\ is_active' = FALSE
    /\ emergency_start_time' = NoTime
    /\ emergency_confirmed' = FALSE
    /\ emergency_cancelled' = FALSE
    /\ loops' = [loops EXCEPT ![i] = Ended(@)]
    /\ UNCHANGED <<cfgVars, now, thrVars, alertVars, locVars, msgVars, obs>>

(***************************************************************************)
(* The clock                                                               *)
(***************************************************************************)
\* Time passes while some loop waits: a whole confirmation timeout at once.
\* Everything that happens between two such steps happens within the same
\* second.
TimeoutPasses ==
    /\ \E i \in DOMAIN loops :
          Polling(loops[i]) /\ now - loops[i].start_time < ConfirmationTimeout
    /\ now' = now + ConfirmationTimeout
    /\ UNCHANGED <<cfgVars, trigVars, thrVars, loops, alertVars, locVars, msgVars, obs>>

(***************************************************************************)
(* EmergencyAlertSystem (emergency_alert_system.py)                        *)
(***************************************************************************)
EmergencyAlert(alert_id, trigger_type, location, timestamp) ==
    [alert_id |-> alert_id, trigger_type |-> trigger_type, location |-> location,
     timestamp |-> timestamp, confirmed |-> FALSE, messages_sent |-> <<>>,
     status |-> "pending"]

\* Provider answers drawn when the orchestrator asks for the location
OrchAnswers ==
    {<<a, b, FailResp>> :
        a \in {FailResp},
        b \in {FailResp,
               [ok |-> TRUE, status |-> "success", lat |-> NumC(45), lon |-> NumC(7),
                ip |-> "203.0.113.9"]}}

\* _handle_emergency_trigger, line 155: location_service.get_current_location()
AlertLocate(t, resps) ==
    /\ t \in callers /\ tpc[t] = "a_locate"
    /\ LET r == GetCurrentLocation(cache_file, resps, now)
       IN  /\ tloc' = [tloc EXCEPT ![t] = r.result]
           /\ cache_file' = r.cache
           /\ UNCHANGED <<loc_result, loc_queries>>
           /\ obs' = [obs EXCEPT !.on_emergency = @ + 1,
                                 !.lookup = Some([resps |-> resps, nq |-> r.nq,
                                                  result |-> r.result])]
    /\ tpc' = [tpc EXCEPT ![t] = "a_create"]
    /\ UNCHANGED <<cfgVars, now, trigVars, tev, twin, tret, loops, alertVars, msgVars>>

\* _handle_emergency_trigger, lines 162-175: the alert is created, the
\* on_alert_triggered hook runs (an exception of the hook is caught by line 179)
AlertCreate(t, hook_raises) ==
    /\ t \in callers /\ tpc[t] = "a_create"
    /\ alerts' = Append(alerts,
                        EmergencyAlert(now, tev[t].emergency_type, tloc[t], tev[t].timestamp))
    /\ current_alert' = Len(alerts) + 1
    /\ tpc' = [tpc EXCEPT ![t] = "start_thread"]
    /\ obs' = [obs EXCEPT !.lookup = NoneOpt]
    /\ UNCHANGED <<cfgVars, now, trigVars, tev, twin, tret, tloc, loops, alert_history,
                   locVars, msgVars>>

LoopHandlerUnchanged == UNCHANGED <<cfgVars, now, trigVars, thrVars, locVars>>

\* a confirmation handler that appends to the history before it sends
ConfirmationMarkAppends(i) ==
    /\ i \in DOMAIN loops /\ loops[i].pc = "k_check"
    /\ IF current_alert = 0
       THEN /\ loops' = [loops EXCEPT ![i].pc = "reset"]
            /\ UNCHANGED <<alerts, alert_history>>
       ELSE /\ loops' = [loops EXCEPT ![i].pc = "k_send"]
            /\ alerts' = [alerts EXCEPT ![current_alert].confirmed = TRUE,
                                        ![current_alert].status = "confirmed"]
            /\ alert_history' = Append(alert_history, current_alert)
    /\ UNCHANGED <<current_alert, msgVars, obs>>
    /\ LoopHandlerUnchanged

\* a confirmation handler that sets the status and leaves the confirmed field
ConfirmationMarkStatusOnly(i) ==
    /\ i \in DOMAIN loops /\ loops[i].pc = "k_check"
    /\ IF current_alert = 0
       THEN /\ loops' = [loops EXCEPT ![i].pc = "reset"]
            /\ alerts' = alerts
       ELSE /\ loops' = [loops EXCEPT ![i].pc = "k_send"]
            /\ alerts' = [alerts EXCEPT ![current_alert].status = "confirmed"]
    /\ UNCHANGED <<current_alert, alert_history, msgVars, obs>>
    /\ LoopHandlerUnchanged

\* _handle_emergency_confirmation, lines 187-193
ConfirmationMark(i) ==
    /\ i \in DOMAIN loops /\ loops[i].pc = "k_check"
    /\ IF current_alert = 0
       THEN /\ loops' = [loops EXCEPT ![i].pc = "reset"]
            /\ alerts' = alerts
       ELSE /\ loops' = [loops EXCEPT ![i].pc = "k_send"]
            /\ alerts' = [alerts EXCEPT ![current_alert].confirmed = TRUE,
                                        ![current_alert].status = "confirmed"]
    /\ UNCHANGED <<current_alert, alert_history, msgVars, obs>>
    /\ LoopHandlerUnchanged

\* _handle_emergency_confirmation, lines 196-213: the messages are sent and
\* stored on the current alert (an AttributeError on None is caught by line 232)
ConfirmationSend(i, gw) ==
    /\ i \in DOMAIN loops /\ loops[i].pc = "k_send"
    /\ IF current_alert = 0
       THEN /\ loops' = [loops EXCEPT ![i].pc = "reset"]
            /\ UNCHANGED <<alerts, msg_results, obs>>
       ELSE LET results ==
                    SendEmergencyMessage(contacts, message_templates, twilio_client,
                                         twilio_phone_number,
                                         alerts[current_alert].location,
                                         loops[i].emergency_type, gw, now)
            IN  /\ loops' = [loops EXCEPT ![i].pc = "k_hist",
                                           ![i].called = Append(@, "send_emergency_message")]
                /\ alerts' = [alerts EXCEPT ![current_alert].messages_sent = results]
                /\ msg_results' = results
                /\ obs' = [obs EXCEPT !.sends = @ + 1]
    /\ UNCHANGED <<current_alert, alert_history, contacts, contacts_file,
                   message_templates, templates_file, twilio_client, twilio_phone_number>>
    /\ LoopHandlerUnchanged

\* _handle_emergency_confirmation, line 220: alert_history.append(current_alert)
ConfirmationAppend(i) ==
    /\ i \in DOMAIN loops /\ loops[i].pc = "k_hist"
    /\ alert_history' = Append(alert_history, current_alert)
    /\ loops' = [loops EXCEPT ![i].pc = "k_hooks"]
    /\ UNCHANGED <<alerts, current_alert, msgVars, obs>>
    /\ LoopHandlerUnchanged

\* a hook step that writes the outcome of the hooks into the alert
ConfirmationHooksNoted(i, raises) ==
    /\ i \in DOMAIN loops /\ loops[i].pc = "k_hooks"
    /\ loops' = [loops EXCEPT ![i].pc = "reset", ![i].raised = raises]
    /\ IF current_alert = 0 THEN alerts' = alerts
       ELSE alerts' = [alerts EXCEPT ![current_alert].status = "notified"]
    /\ UNCHANGED <<current_alert, alert_history, msgVars, obs>>
    /\ LoopHandlerUnchanged

\* hooks called outside any try: an exception of a hook ends the thread
ConfirmationHooksEscape(i, raises) ==
    /\ i \in DOMAIN loops /\ loops[i].pc = "k_hooks"
    /\ loops' = [loops EXCEPT ![i] = IF raises THEN Ended(@) ELSE [@ EXCEPT !.pc = "reset"]]
    /\ UNCHANGED <<alertVars, msgVars, obs>>
    /\ LoopHandlerUnchanged

\* _handle_emergency_confirmation, lines 223-228: on_alert_confirmed, then
\* on_messages_sent unless the first hook raised
ConfirmationHooks(i, raises) ==
    /\ i \in DOMAIN loops /\ loops[i].pc = "k_hooks"
    /\ loops' = [loops EXCEPT ![i].pc = "reset", ![i].raised = raises]
    /\ UNCHANGED <<alertVars, msgVars, obs>>
    /\ LoopHandlerUnchanged

\* a cancellation handler that marks the alert without appending it
CancellationMarkOnly(i) ==
    /\ i \in DOMAIN loops /\ loops[i].pc = "x_mark"
    /\ IF current_alert = 0
       THEN UNCHANGED alerts
       ELSE alerts' = [alerts EXCEPT ![current_alert].status = "cancelled"]
    /\ loops' = [loops EXCEPT ![i].pc = "x_hook"]
    /\ UNCHANGED <<current_alert, alert_history, msgVars, obs>>
    /\ LoopHandlerUnchanged

\* a cancellation handler that dispatches the messages as well
CancellationMarkSends(i) ==
    /\ i \in DOMAIN loops /\ loops[i].pc = "x_mark"
    /\ IF current_alert = 0
       THEN UNCHANGED <<alerts, alert_history, msg_results, obs>>
       ELSE LET results ==
                    SendEmergencyMessage(contacts, message_templates, twilio_client,
                                         twilio_phone_number,
                                         alerts[current_alert].location,
                                         loops[i].emergency_type,
                                         [k \in 1..Len(contacts) |-> "ok"], now)
            IN  /\ alerts' = [alerts EXCEPT ![current_alert].status = "cancelled",
                                            ![current_alert].messages_sent = results]
                /\ alert_history' = Append(alert_history, current_alert)
                /\ msg_results' = results
                /\ obs' = [obs EXCEPT !.sends = @ + 1]
    /\ loops' = [loops EXCEPT ![i].pc = "x_hook"]
    /\ UNCHANGED <<current_alert, contacts, contacts_file, message_templates,
                   templates_file, twilio_client, twilio_phone_number>>
    /\ LoopHandlerUnchanged

\* _handle_emergency_cancellation, lines 240-242
CancellationMark(i) ==
    /\ i \in DOMAIN loops /\ loops[i].pc = "x_mark"
    /\ IF current_alert = 0
       THEN UNCHANGED <<alerts, alert_history>>
       ELSE /\ alerts' = [alerts EXCEPT ![current_alert].status = "cancelled"]
            /\ alert_history' = Append(alert_history, current_alert)
    /\ loops' = [loops EXCEPT ![i].pc = "x_hook"]
    /\ UNCHANGED <<current_alert, msgVars, obs>>
    /\ LoopHandlerUnchanged

\* _handle_emergency_cancellation, lines 245-248: the on_alert_cancelled hook,
\* then current_alert = None unless the hook raised
CancellationHook(i, raises) ==
    /\ i \in DOMAIN loops /\ loops[i].pc = "x_hook"
    /\ current_alert' = IF raises THEN current_alert ELSE 0
    /\ loops' = [loops EXCEPT ![i].pc = "reset", ![i].raised = raises]
    /\ UNCHANGED <<alerts, alert_history, msgVars, obs>>
    /\ LoopHandlerUnchanged

\* get_location_summary, for a location whose city and country are empty
LocationSummary(location) ==
    IF location.address # "" THEN location.address ELSE "Coordinates"

\* get_system_status: it asks the location service for the current location
GetSystemStatus(t, resps) ==
    /\ Idle(t) /\ CanCall(t, "status") /\ wiring = "orchestrator"
    /\ LET r == GetCurrentLocation(cache_file, resps, now)
       IN  /\ cache_file' = r.cache
           /\ UNCHANGED <<loc_result, loc_queries>>
           /\ obs' = [obs EXCEPT !.out = Some(
                  [current_alert |-> IF current_alert = 0 THEN NoTime
                                     ELSE alerts[current_alert].alert_id,
                   alert_status |-> IF current_alert = 0 THEN "None"
                                    ELSE alerts[current_alert].status,
                   trigger_active |-> is_active,
                   location_available |-> r.result # NoneOpt,
                   total_alerts |-> Len(alert_history),
                   contacts_configured |-> Len(contacts),
                   lookups |-> r.nq])]      \* lookups: provider requests made
    /\ tpc' = [tpc EXCEPT ![t] = "q_return"]
    /\ UNCHANGED <<cfgVars, now, trigVars, tev, twin, tret, tloc, loops, alertVars, msgVars>>

\* get_alert_history: a None entry in the list makes the loop raise, and the
\* except of line 290 returns []
GetAlertHistory(t) ==
    /\ Idle(t) /\ CanCall(t, "history") /\ wiring = "orchestrator"
    /\ obs' = [obs EXCEPT !.out = Some(
           IF \E k \in DOMAIN alert_history : alert_history[k] = 0
           THEN <<>>
           ELSE [k \in DOMAIN alert_history |->
                   LET a == alerts[alert_history[k]]
                   IN [alert_id |-> a.alert_id, trigger_type |-> a.trigger_type,
                       location |-> IF a.location # NoneOpt
                                    THEN LocationSummary(a.location[1]) ELSE "Unknown",
                       confirmed |-> a.confirmed, status |-> a.status,
                       messages_sent |-> Len(a.messages_sent),
                       successful_messages |->
                           Cardinality({m \in DOMAIN a.messages_sent :
                                           a.messages_sent[m].success})]])]
    /\ tpc' = [tpc EXCEPT ![t] = "q_return"]
    /\ UNCHANGED <<cfgVars, now, trigVars, tev, twin, tret, tloc, loops, alertVars,
                   locVars, msgVars>>

\* the caller has taken the value a query returned
QueryReturn(t) ==
    /\ t \in callers /\ tpc[t] = "q_return"
    /\ obs' = [obs EXCEPT !.out = NoneOpt]
    /\ tpc' = [tpc EXCEPT ![t] = "idle"]
    /\ UNCHANGED <<cfgVars, now, trigVars, tev, twin, tret, tloc, loops, alertVars,
                   locVars, msgVars>>

(***************************************************************************)
(* Initial states and specifications                                       *)
(***************************************************************************)
\* lookup: the provider answers and the outcome of the lookup of the trigger
\* being handled, kept until its alert is created
Obs0 == [on_emergency |-> 0, sends |-> 0, out |-> NoneOpt, ticks |-> 0, call |-> 0,
         sent |-> NoneOpt, lookup |-> NoneOpt]

\* EmergencyTriggerSystem.__init__ and the threads at rest
InitTrigger ==
    /\ now = 0
    /\ is_active = FALSE
    /\ emergency_start_time = NoTime
    /\ emergency_confirmed = FALSE
    /\ emergency_cancelled = FALSE
    /\ tpc = [t \in AllCallers |-> "idle"]
    /\ tev = [t \in AllCallers |-> NoEvent]
    /\ twin = [t \in AllCallers |-> 0]
    /\ tret = [who |-> "none", value |-> FALSE, rejected |-> FALSE]
    /\ tloc = [t \in AllCallers |-> NoneOpt]
    /\ loops = <<>>
    /\ obs = Obs0

\* EmergencyAlertSystem.__init__
InitAlerts ==
    /\ alerts = <<>>
    /\ current_alert = 0
    /\ alert_history = <<>>

\* LocationService.__init__: no cache file yet
InitLocation ==
    /\ cache_file = NoneOpt
    /\ loc_result = NoneOpt
    /\ loc_queries = 0

\* MessageSender.__init__ over the given files and credentials
InitSender(cfile, tfile, client, phone) ==
    /\ contacts = LoadContacts(cfile).contacts
    /\ contacts_file = LoadContacts(cfile).file
    /\ message_templates = LoadMessageTemplates(tfile).templates
    /\ templates_file = LoadMessageTemplates(tfile).file
    /\ twilio_client = client
    /\ twilio_phone_number = phone
    /\ msg_results = <<>>

\* The trigger system alone, with caller-supplied callbacks that may raise
InitTrig ==
    /\ callers \in {{"speech", "api"}, {"gesture", "api"}}
    /\ wiring = "standalone"
    /\ InitTrigger /\ InitAlerts /\ InitLocation
    /\ InitSender(NoneOpt, NoneOpt, FALSE, FALSE)

CallerStep(t) ==
    \/ \E text \in Texts : TriggerVoiceEmergency(t, text)
    \/ \E g \in GestureTypes : TriggerGestureEmergency(t, g)
    \/ TriggerManualEmergency(t)
    \/ SetActive(t)
    \/ SetWindowState(t)
    \/ StartThread(t)
    \/ ConfirmEmergency(t)
    \/ ConfirmSet(t)
    \/ CancelEmergency(t)
    \/ CancelSet(t)

LoopStep(i) ==
    \/ LoopBegin(i)
    \/ LoopReadTime(i)
    \/ LoopCheckConfirmed(i)
    \/ LoopCheckCancelled(i)
    \/ LoopCheckTimeout(i)
    \/ ResetEmergencyState(i)

NextTrig ==
    \/ \E t \in AllCallers : CallerStep(t)
    \/ \E t \in AllCallers, raises \in BOOLEAN : OnEmergencyCallback(t, raises)
    \/ \E i \in DOMAIN loops : LoopStep(i)
    \/ \E i \in DOMAIN loops, raises \in BOOLEAN : ResolutionCallback(i, raises)
    \/ TimeoutPasses

SpecTrig == InitTrig /\ [][NextTrig]_vars

\* The orchestrator with its handlers registered, driven by one caller
OrchContactFiles == {Some(<<Contact(2, TRUE), Contact(1, FALSE)>>)}

Init ==
    /\ callers = {"api"}
    /\ wiring = "orchestrator"
    /\ InitTrigger /\ InitAlerts /\ InitLocation
    /\ \E cfile \in OrchContactFiles, tfile \in {NoneOpt, Some(DefaultTemplates)},
          gateway \in BOOLEAN :
            InitSender(cfile, tfile, gateway, gateway)

Next ==
    \/ \E t \in AllCallers : CallerStep(t)
    \/ \E t \in AllCallers, resps \in OrchAnswers : AlertLocate(t, resps)
    \/ \E t \in AllCallers, raises \in BOOLEAN : AlertCreate(t, raises)
    \/ \E i \in DOMAIN loops : LoopStep(i)
    \/ \E i \in DOMAIN loops : ConfirmationMark(i)
    \/ \E i \in DOMAIN loops, gw \in [1..Len(contacts) -> GatewayOutcomes] :
            ConfirmationSend(i, gw)
    \/ \E i \in DOMAIN loops : ConfirmationAppend(i)
    \/ \E i \in DOMAIN loops, raises \in BOOLEAN : ConfirmationHooks(i, raises)
    \/ \E i \in DOMAIN loops : CancellationMark(i)
    \/ \E i \in DOMAIN loops, raises \in BOOLEAN : CancellationHook(i, raises)
    \/ TimeoutPasses

Spec == Init /\ [][Next]_vars

\* Scheduling: a caller inside trigger_* runs on to its return, the daemon
\* thread of a window runs on to its end, and time passes while a loop polls.
\* Whether anybody calls trigger, confirm or cancel is left open.
CallerRuns(t) ==
    \/ SetActive(t)
    \/ SetWindowState(t)
    \/ \E resps \in OrchAnswers : AlertLocate(t, resps)
    \/ \E raises \in BOOLEAN : AlertCreate(t, raises)
    \/ StartThread(t)

ThreadRuns(i) ==
    \/ LoopStep(i)
    \/ ConfirmationMark(i)
    \/ \E gw \in [1..Len(contacts) -> GatewayOutcomes] : ConfirmationSend(i, gw)
    \/ ConfirmationAppend(i)
    \/ \E raises \in BOOLEAN : ConfirmationHooks(i, raises)
    \/ CancellationMark(i)
    \/ \E raises \in BOOLEAN : CancellationHook(i, raises)

Fairness ==
    /\ \A t \in AllCallers : WF_vars(CallerRuns(t))
    /\ \A i \in 1..MaxAlerts : WF_vars(ThreadRuns(i))
    /\ WF_vars(TimeoutPasses)

\* a first start and a later start, both without Twilio credentials
InitFair ==
    /\ callers = {"api"}
    /\ wiring = "orchestrator"
    /\ InitTrigger /\ InitAlerts /\ InitLocation
    /\ \E cfile \in OrchContactFiles :
          \/ InitSender(cfile, NoneOpt, FALSE, FALSE)
          \/ InitSender(cfile, Some(DefaultTemplates), FALSE, FALSE)

FairSpec == InitFair /\ [][Next]_vars /\ Fairness

\* The orchestrator with more varied provider answers: each of the first two
\* services fails, answers with coordinates, or answers without a usable body
OkResp(lat, lon) ==
    [ok |-> TRUE, status |-> "success", lat |-> NumC(lat), lon |-> NumC(lon),
     ip |-> "203.0.113.9"]

LookupAnswers ==
    {<<a, b, c>> :
        a \in {FailResp, OkResp(45, 7), [OkResp(45, 7) EXCEPT !.status = "fail"]},
        b \in {FailResp, OkResp(46, 8), [OkResp(46, 8) EXCEPT !.lat = BadC]},
        c \in IpifyResps}

InitLookup ==
    /\ callers = {"api"}
    /\ wiring = "orchestrator"
    /\ InitTrigger /\ InitAlerts /\ InitLocation
    /\ \E cfile \in OrchContactFiles :
          InitSender(cfile, Some(DefaultTemplates), FALSE, FALSE)

NextLookup ==
    \/ \E t \in AllCallers : CallerStep(t)
    \/ \E t \in AllCallers, resps \in LookupAnswers : AlertLocate(t, resps)
    \/ \E t \in AllCallers, raises \in BOOLEAN : AlertCreate(t, raises)
    \/ \E i \in DOMAIN loops : LoopStep(i)
    \/ \E i \in DOMAIN loops : ConfirmationMark(i)
    \/ \E i \in DOMAIN loops, gw \in [1..Len(contacts) -> GatewayOutcomes] :
            ConfirmationSend(i, gw)
    \/ \E i \in DOMAIN loops : ConfirmationAppend(i)
    \/ \E i \in DOMAIN loops, raises \in BOOLEAN : ConfirmationHooks(i, raises)
    \/ \E i \in DOMAIN loops : CancellationMark(i)
    \/ \E i \in DOMAIN loops, raises \in BOOLEAN : CancellationHook(i, raises)
    \/ TimeoutPasses

SpecLookup == InitLookup /\ [][NextLookup]_vars

\* The orchestrator with the calls of confirm_emergency and cancel_emergency
\* followed to their return
ApiStep(t) ==
    \/ \E text \in Texts : TriggerVoiceEmergency(t, text)
    \/ \E g \in GestureTypes : TriggerGestureEmergency(t, g)
    \/ TriggerManualEmergency(t)
    \/ SetActive(t)
    \/ SetWindowState(t)
    \/ StartThread(t)
    \/ ConfirmTest(t, "c_warn")
    \/ ConfirmSet(t)
    \/ CancelTest(t, "x_warn")
    \/ CancelSet(t)
    \/ NoActiveEmergency(t)

NextApi ==
    \/ \E t \in AllCallers : ApiStep(t)
    \/ \E t \in AllCallers : AlertLocate(t, <<FailResp, FailResp, FailResp>>)
    \/ \E t \in AllCallers, raises \in BOOLEAN : AlertCreate(t, raises)
    \/ \E i \in DOMAIN loops : LoopStep(i)
    \/ \E i \in DOMAIN loops : ConfirmationMark(i)
    \/ \E i \in DOMAIN loops, gw \in [1..Len(contacts) -> GatewayOutcomes] :
            ConfirmationSend(i, gw)
    \/ \E i \in DOMAIN loops : ConfirmationAppend(i)
    \/ \E i \in DOMAIN loops, raises \in BOOLEAN : ConfirmationHooks(i, raises)
    \/ \E i \in DOMAIN loops : CancellationMark(i)
    \/ \E i \in DOMAIN loops, raises \in BOOLEAN : CancellationHook(i, raises)
    \/ TimeoutPasses

SpecApi == InitLookup /\ [][NextApi]_vars

\* The orchestrator with its status queries
NextQuery ==
    \/ NextApi
    \/ \E t \in AllCallers, resps \in OrchAnswers : GetSystemStatus(t, resps)
    \/ \E t \in AllCallers : GetAlertHistory(t)
    \/ \E t \in AllCallers : QueryReturn(t)

SpecQuery == InitLookup /\ [][NextQuery]_vars

(***************************************************************************)
(* The location service on its own                                         *)
(***************************************************************************)
orchVars == <<trigVars, thrVars, loops, alertVars>>

\* get_current_location called directly; obs.call alternates with each call
CallGetCurrentLocation(resps) ==
    /\ LET r == GetCurrentLocation(cache_file, resps, now)
       IN  /\ cache_file' = r.cache
           /\ loc_result' = r.result
           /\ loc_queries' = r.nq
    /\ obs' = [obs EXCEPT !.call = 1 - @]
    /\ UNCHANGED <<cfgVars, now, orchVars, msgVars>>

\* the clock of the location service: a second, or just short of the cache
\* duration
LocTickSteps == {1, CacheDuration - 1}

LocTick(d) ==
    /\ obs.ticks < MaxTicks
    /\ now' = now + d
    /\ obs' = [obs EXCEPT !.ticks = @ + 1]
    /\ UNCHANGED <<cfgVars, orchVars, locVars, msgVars>>

InitLoc ==
    /\ callers = {}
    /\ wiring = "standalone"
    /\ InitTrigger /\ InitAlerts /\ InitLocation
    /\ InitSender(NoneOpt, NoneOpt, FALSE, FALSE)

NextLoc ==
    \/ \E resps \in ProviderAnswers : CallGetCurrentLocation(resps)
    \/ \E d \in LocTickSteps : LocTick(d)

SpecLoc == InitLoc /\ [][NextLoc]_vars

(***************************************************************************)
(* The message sender on its own                                           *)
(***************************************************************************)
\* send_emergency_message called directly; obs.sent keeps what it was called on
CallSendEmergencyMessage(location_data, trigger_type, gw) ==
    /\ msg_results' = SendEmergencyMessage(contacts, message_templates, twilio_client,
                                           twilio_phone_number, location_data,
                                           trigger_type, gw, now)
    /\ obs' = [obs EXCEPT !.sent = Some([contacts |-> contacts, gw |-> gw,
                                         templates |-> message_templates,
                                         location_data |-> location_data,
                                         trigger_type |-> trigger_type,
                                         gateway |-> twilio_client /\ twilio_phone_number])]
    /\ UNCHANGED <<cfgVars, now, orchVars, locVars, contacts, contacts_file,
                   message_templates, templates_file, twilio_client, twilio_phone_number>>

\* add_contact: the new contact is enabled; _save_contacts rewrites the file
AddContact(priority) ==
    /\ Len(contacts) < MaxContacts
    /\ contacts' = Append(contacts, Contact(priority, TRUE))
    /\ contacts_file' = Some(contacts')
    /\ UNCHANGED <<cfgVars, now, orchVars, locVars, message_templates, templates_file,
                   twilio_client, twilio_phone_number, msg_results, obs>>

\* the process is started again: MessageSender.__init__ over the files left
Restart ==
    /\ contacts' = LoadContacts(contacts_file).contacts
    /\ contacts_file' = LoadContacts(contacts_file).file
    /\ message_templates' = LoadMessageTemplates(templates_file).templates
    /\ templates_file' = LoadMessageTemplates(templates_file).file
    /\ msg_results' = <<>>
    /\ obs' = [obs EXCEPT !.sent = NoneOpt]
    /\ UNCHANGED <<cfgVars, now, orchVars, locVars, twilio_client, twilio_phone_number>>

ContactKinds == {Contact(p, e) : p \in {1, 2}, e \in BOOLEAN}
ContactLists ==
    {<<>>} \cup {<<c>> : c \in ContactKinds}
           \cup {<<c, d>> : c \in ContactKinds, d \in ContactKinds}
TemplateFiles ==
    {NoneOpt, Some(DefaultTemplates), Some(<<DefaultTemplates[2]>>)}
LocationDicts == {NoneOpt, Some([address |-> "203.0.113.9"])}

InitMsg ==
    /\ callers = {}
    /\ wiring = "standalone"
    /\ InitTrigger /\ InitAlerts /\ InitLocation
    /\ \E cfile \in {NoneOpt} \cup {Some(l) : l \in ContactLists},
          tfile \in TemplateFiles, client \in BOOLEAN, phone \in BOOLEAN :
            InitSender(cfile, tfile, client, phone)

NextMsg ==
    \/ \E l \in LocationDicts, trig \in {"manual", "voice"},
          gw \in [1..Len(contacts) -> GatewayOutcomes] :
            CallSendEmergencyMessage(l, trig, gw)
    \/ \E p \in {1, 2} : AddContact(p)
    \/ Restart

SpecMsg == InitMsg /\ [][NextMsg]_vars

\* The sender with an 'emergency_alert' template written by the user: two
\* placeholders among those the sender fills and one it does not know, {name}.
RenderTokens == {"{location}", "{timestamp}", "{trigger_type}", "{coordinates}", "{name}"}
RenderTemplates ==
    {<<MessageTemplate("emergency_alert", <<"ALERT ", a, " / ", b>>, <<>>)>> :
        a \in RenderTokens, b \in RenderTokens}

InitRender ==
    /\ callers = {}
    /\ wiring = "standalone"
    /\ InitTrigger /\ InitAlerts /\ InitLocation
    /\ \E tfile \in RenderTemplates :
            InitSender(Some(<<Contact(1, TRUE)>>), Some(tfile), FALSE, FALSE)

\* send_emergency_message with argument values that may themselves read
\* like a placeholder
NextRender ==
    \/ \E l \in {NoneOpt, Some([address |-> "203.0.113.9"]),
                  Some([address |-> "{trigger_type}"]), Some([address |-> "{timestamp}"])},
          trig \in {"voice", "{timestamp}", "{location}"},
          gw \in [1..Len(contacts) -> GatewayOutcomes] :
            CallSendEmergencyMessage(l, trig, gw)
    \/ Restart

SpecRender == InitRender /\ [][NextRender]_vars

(***************************************************************************)
(* Properties                                                              *)
(***************************************************************************)
\* a trigger_* call that reaches _handle_emergency_trigger
TriggerCall(t) ==
    \/ \E text \in Texts : HasEmergencyKeyword(text) /\ TriggerVoiceEmergency(t, text)
    \/ \E g \in GestureTypes : IsEmergencyGesture(g) /\ TriggerGestureEmergency(t, g)
    \/ TriggerManualEmergency(t)

\* an accepted trigger whose window has not chosen its resolution yet
AwaitingConfirmation == is_active /\ \E i \in DOMAIN loops : Unresolved(loops[i])

\* the resolution callbacks a window has invoked
Callbacks(w) ==
    SelectSeq(w.called, LAMBDA c : c \in {"on_confirmation", "on_cancellation"})

\* the windows whose loop thread is running
RunningWindows == {i \in DOMAIN loops : Running(loops[i])}

\* a caller is inside trigger_*, past the busy check
TriggerInFlight ==
    \E t \in callers :
        tpc[t] \in {"h_active", "h_rest", "cb_emergency", "a_locate", "a_create",
                    "start_thread"}

\* C1: a trigger submitted while an alert awaits confirmation returns false,
\* creates no alert, invokes no triggered callback and leaves current_alert,
\* the start time and the confirmed/cancelled flags as they were.
C1_SecondTriggerRejected ==
    [][\A t \in callers :
          (AwaitingConfirmation /\ TriggerCall(t)) =>
              /\ tret'.who = t /\ tret'.value = FALSE
              /\ alerts' = alerts /\ current_alert' = current_alert
              /\ obs'.on_emergency = obs.on_emergency
              /\ emergency_start_time' = emergency_start_time
              /\ emergency_confirmed' = emergency_confirmed
              /\ emergency_cancelled' = emergency_cancelled]_vars

\* C2: at most one confirmation loop thread runs at any instant, also when
\* triggers arrive from different threads.
C2_AtMostOneWindow == Cardinality(RunningWindows) <= 1

\* C3: in the confirm/cancel race the first call wins: a window on which
\* cancel_emergency was called first is not resolved as confirmed by a later
\* confirm_emergency, and a window on which confirm_emergency was called first
\* is not resolved as cancelled by a later cancel_emergency.
C3_FirstCallWins ==
    \A i \in DOMAIN loops :
        /\ loops[i].first = "cancel" => loops[i].resolution # "confirmed"
        /\ loops[i].first = "confirm" => loops[i].resolution # "cancelled"

\* C4: a window on which neither confirm_emergency nor cancel_emergency was
\* called resolves, and only once the confirmation timeout has elapsed, through
\* the confirmation path: on_confirmation is the callback invoked and
\* send_emergency_message is called; it is never resolved as cancelled, and it
\* does not stay pending forever.
C4_Unanswered(w) == w.first = "none" /\ w.pc # "done" /\ w.resolution # "none"

C4_AutoConfirmed(w) ==
    /\ w.resolution = "timeout"
    /\ w.elapsed >= ConfirmationTimeout
    /\ Callbacks(w) = <<"on_confirmation">>
    /\ w.pc \in {"k_hist", "k_hooks", "reset"} =>
           w.called = <<"on_confirmation", "send_emergency_message">>

C5_CallbackOf(w) ==
    IF w.resolution = "none" THEN <<>>
    ELSE IF w.resolution = "cancelled" THEN <<"on_cancellation">>
    ELSE <<"on_confirmation">>

C5_ResetStep(i) ==
    i \in DOMAIN loops /\ loops[i].pc = "reset" /\ loops'[i].pc = "done"

C5_OneCallbackThenIdle ==
    /\ [](\A i \in DOMAIN loops : Callbacks(loops[i]) = C5_CallbackOf(loops[i]))
    /\ [](\A i \in DOMAIN loops : loops[i].pc = "done" => loops[i].resolution # "none")
    /\ [](is_active => (TriggerInFlight \/ \E i \in DOMAIN loops : loops[i].pc # "done"))
    /\ [][\A i \in 1..MaxAlerts :
            C5_ResetStep(i) =>
                /\ ~is_active' /\ ~emergency_confirmed' /\ ~emergency_cancelled'
                /\ emergency_start_time' = NoTime]_vars
    /\ \A i \in 1..MaxAlerts :
          (i \in DOMAIN loops /\ loops[i].resolution # "none")
              ~> (i \in DOMAIN loops /\ loops[i].pc = "done" /\ ~is_active)

\* a second trigger was accepted after the first window had ended
C5_Witness ==
    /\ Len(loops) = 2
    /\ loops[1].pc = "done" /\ Len(Callbacks(loops[1])) = 1
    /\ Running(loops[2])

\* C6: an error raised inside a callback registered on the trigger system
\* never leaves it stuck outside Idle: whenever is_active holds, a trigger call
\* or a confirmation thread is still at work that will clear it.
C6_NeverStuck ==
    is_active => (TriggerInFlight \/ \E i \in DOMAIN loops : Running(loops[i]))

\* C7: send_emergency_message returns exactly one result per enabled contact
\* and none for a disabled one, whatever the contact list and the gateway
\* state, and a failed delivery gives a failure result for that contact only.
C7_EnabledAt(cs) == {k \in DOMAIN cs : cs[k].enabled}

C7_OneResultPerEnabledContact ==
    obs.sent # NoneOpt =>
        LET sent == obs.sent[1]
        IN  /\ Len(msg_results) = Cardinality(C7_EnabledAt(sent.contacts))
            /\ {msg_results[j].to : j \in DOMAIN msg_results} = C7_EnabledAt(sent.contacts)
            /\ \A j \in DOMAIN msg_results :
                  (sent.gateway /\ sent.gw[msg_results[j].to] # "ok")
                      => ~msg_results[j].success

C9_LocationCall == obs'.call # obs.call

C9_CacheWithinTtl ==
    [][C9_LocationCall =>
          IF cache_file # NoneOpt /\ now - cache_file[1].timestamp < CacheDuration
          THEN loc_result' = cache_file /\ cache_file' = cache_file /\ loc_queries' = 0
          ELSE /\ loc_queries' > 0
               /\ loc_result' # cache_file \/ loc_result' = NoneOpt
               /\ loc_result' # NoneOpt =>
                      (loc_result'[1].timestamp = now /\ cache_file' = loc_result')]_vars

\* a call answered from an entry one second short of the cache duration
C9_Witness ==
    /\ loc_queries = 0 /\ loc_result # NoneOpt /\ loc_result = cache_file
    /\ now - loc_result[1].timestamp = CacheDuration - 1

\* C10: every location returned by get_current_location and every location in
\* the cache has latitude in [-90, 90], longitude in [-180, 180] and is not
\* (0, 0).
C10_Valid(location) ==
    /\ -90 <= location.latitude /\ location.latitude <= 90
    /\ -180 <= location.longitude /\ location.longitude <= 180
    /\ ~(location.latitude = 0 /\ location.longitude = 0)

C10_ValidatedLocations ==
    /\ loc_result # NoneOpt => C10_Valid(loc_result[1])
    /\ cache_file # NoneOpt => C10_Valid(cache_file[1])

\* a piece of text occurs in a message body
HasPiece(body, piece) == \E k \in DOMAIN body : body[k] = piece

\* alert a is an entry of alert_history
InHistory(a) == \E k \in DOMAIN alert_history : alert_history[k] = a

\* C11: the providers are asked in their fixed order and the first one whose
\* answer yields a location ends the lookup; when none does, the result is
\* null, the alert is created with location null, a confirmation dispatches it
\* with the location rendered as "Location unknown", and it is appended to
\* the history.
C11_Yields(l) ==
    {k \in 1..Len(Services) :
        l.resps[k].ok /\ ParseIpResponse(l.resps[k], Services[k], now) # NoneOpt}

C11_LookupInOrder(l) ==
    IF l.nq = 0 THEN l.result # NoneOpt /\ l.result = cache_file
    ELSE IF C11_Yields(l) = {} THEN l.result = NoneOpt /\ l.nq = Len(Services)
    ELSE \E k \in C11_Yields(l) :
            /\ \A n \in C11_Yields(l) : k <= n
            /\ l.nq = k
            /\ l.result = ParseIpResponse(l.resps[k], Services[k], now)

C11_NullLocationLifecycle(i) ==
    LET w == loops[i]
        confirmedPath == w.resolution \in {"confirmed", "timeout"}
    IN  /\ (w.pc \in {"k_hist", "k_hooks"} \/ (w.pc \in {"reset", "done"} /\ confirmedPath)) =>
              /\ HasPiece(w.called, "send_emergency_message")
              /\ alerts[i].messages_sent # <<>>
              /\ \A m \in DOMAIN alerts[i].messages_sent :
                    /\ HasPiece(alerts[i].messages_sent[m].body, "Location unknown")
                    /\ ~HasPiece(alerts[i].messages_sent[m].body, "{location}")
        /\ (w.pc \in {"k_hooks", "x_hook"} \/ (w.pc \in {"reset", "done"} /\ w.resolution # "none")) =>
              InHistory(i)

LastInHistory(a) == alert_history # <<>> /\ alert_history[Len(alert_history)] = a

\* C12: a manual trigger answered by cancel_emergency alone, before the loop
\* has seen the timeout, resolves as cancelled: no message is dispatched, and
\* once the cancellation handler has run the last entry of alert_history is
\* that alert, with status "cancelled" and an empty messages_sent.
C12_CancelledAtOnce(w) ==
    /\ w.emergency_type = "manual" /\ w.calls = {"cancel"}
    /\ w.resolution # "none" /\ w.pc # "done"
    /\ w.elapsed < ConfirmationTimeout

C12_TriggerThenCancel ==
    \A i \in DOMAIN loops :
        C12_CancelledAtOnce(loops[i]) =>
            /\ loops[i].resolution = "cancelled"
            /\ loops[i].called = <<"on_cancellation">>
            /\ alerts[i].messages_sent = <<>>
            /\ alerts[i].confirmed = FALSE
            /\ loops[i].pc \in {"x_hook", "reset"} =>
                   (LastInHistory(i) /\ alerts[i].status = "cancelled")

C12_Witness ==
    \E i \in DOMAIN loops :
        /\ C12_CancelledAtOnce(loops[i]) /\ loops[i].pc = "reset"
        /\ LastInHistory(i) /\ now = alerts[i].timestamp

\* C13: a voice trigger left unanswered past the timeout ends as the last
\* entry of alert_history with status "confirmed", one delivery result per
\* enabled contact, each a success or a failure with a non-empty error.
C13_TimedOutVoice(w) ==
    /\ w.emergency_type = "voice" /\ w.calls = {}
    /\ w.resolution = "timeout" /\ w.pc \in {"k_hooks", "reset"}

C13_ResultOk(r) == r.success \/ (r.error # "None" /\ r.error # "")

C13_VoiceTimeoutDelivers ==
    \A i \in DOMAIN loops :
        C13_TimedOutVoice(loops[i]) =>
            /\ LastInHistory(i)
            /\ alerts[i].status = "confirmed"
            /\ Len(alerts[i].messages_sent) = Cardinality(C7_EnabledAt(contacts))
            /\ \A j \in DOMAIN alerts[i].messages_sent :
                  C13_ResultOk(alerts[i].messages_sent[j])

\* the variables send_emergency_message fills for the call recorded in sent
C14_Value(sent, token) ==
    IF token = "{timestamp}" THEN "2026-01-01 00:00:00"
    ELSE IF token = "{trigger_type}" THEN sent.trigger_type
    ELSE IF token = "{location}"
         THEN (IF sent.location_data = NoneOpt THEN "Location unknown"
               ELSE sent.location_data[1].address)
    ELSE IF sent.location_data = NoneOpt THEN "N/A" ELSE "lat, lon"

C14_Present == {"{timestamp}", "{trigger_type}", "{location}", "{coordinates}"}
C14_Body(sent) == sent.templates["emergency_alert"].body
C14_Missing(sent) ==
    {C14_Body(sent)[k] : k \in DOMAIN C14_Body(sent)} \cap (RenderTokens \ C14_Present)
C14_PlainValues(sent) == \A token \in C14_Present : C14_Value(sent, token) \notin RenderTokens

\* the rendered body holds no placeholder of a variable that is present, the
\* placeholders of missing variables stay where they were, and it is not empty
C14_Rendered(sent, body) ==
    /\ body # <<>> /\ Len(body) = Len(C14_Body(sent))
    /\ \A k \in DOMAIN body : body[k] \notin C14_Present
    /\ \A k \in DOMAIN body :
          C14_Body(sent)[k] \in C14_Missing(sent) => body[k] = C14_Body(sent)[k]
    /\ Cardinality(C14_Missing(sent)) = 1 =>
          {body[k] : k \in DOMAIN body} \cap RenderTokens = C14_Missing(sent)

\* C14 as stated: for all variable values, a rendered body holds no literal
\* placeholder of a present variable; a missing variable's placeholder, and
\* only that one, stays literal; no error is raised and the body is non-empty.
C14_RenderAllValues ==
    (obs.sent # NoneOpt /\ "emergency_alert" \in DOMAIN obs.sent[1].templates) =>
        /\ msg_results # <<>>
        /\ \A j \in DOMAIN msg_results :
              msg_results[j].success /\ C14_Rendered(obs.sent[1], msg_results[j].body)

\* C14 amended: the same, for variable values that are not themselves a
\* placeholder; every piece of the body is then the template's piece, or the
\* value of the variable whose placeholder stood there.
C14_RenderPlainValues ==
    (/\ obs.sent # NoneOpt /\ "emergency_alert" \in DOMAIN obs.sent[1].templates
     /\ C14_PlainValues(obs.sent[1])) =>
        /\ msg_results # <<>>
        /\ \A j \in DOMAIN msg_results :
              /\ msg_results[j].success
              /\ C14_Rendered(obs.sent[1], msg_results[j].body)
              /\ \A k \in DOMAIN msg_results[j].body :
                    msg_results[j].body[k] =
                        IF C14_Body(obs.sent[1])[k] \in C14_Present
                        THEN C14_Value(obs.sent[1], C14_Body(obs.sent[1])[k])
                        ELSE C14_Body(obs.sent[1])[k]

C14_Witness ==
    /\ obs.sent # NoneOpt /\ C14_PlainValues(obs.sent[1])
    /\ C14_Missing(obs.sent[1]) = {"{name}"}
    /\ obs.sent[1].location_data = NoneOpt
    /\ msg_results # <<>>
    /\ msg_results[1].body = <<"ALERT ", "Location unknown", " / ", "{name}">>

\* how often alert a was appended to alert_history
TimesInHistory(a) == Cardinality({k \in DOMAIN alert_history : alert_history[k] = a})

\* C15: the events of one alert are ordered: created pending (with the
\* on_alert_triggered hook) before its window runs, then resolved, then
\* dispatched if confirmed, then appended to alert_history, then the closing
\* hooks; at each point of the window the later events have not happened yet
\* and the earlier ones have.
C15_Sent(w) == HasPiece(w.called, "send_emergency_message")

C15_StageOf(i) ==
    LET w == loops[i]
        a == alerts[i]
    IN  /\ Unresolved(w) =>
              (a.status = "pending" /\ w.called = <<>> /\ TimesInHistory(i) = 0
               /\ a.messages_sent = <<>> /\ ~a.confirmed)
        /\ w.pc \in {"k_check", "x_mark"} =>
              (a.status = "pending" /\ ~C15_Sent(w) /\ TimesInHistory(i) = 0
               /\ a.messages_sent = <<>>)
        /\ w.pc = "k_send" =>
              (a.status = "confirmed" /\ ~C15_Sent(w) /\ TimesInHistory(i) = 0
               /\ a.messages_sent = <<>>)
        /\ w.pc = "k_hist" =>
              (a.status = "confirmed" /\ C15_Sent(w) /\ TimesInHistory(i) = 0)
        /\ w.pc = "k_hooks" =>
              (a.status = "confirmed" /\ C15_Sent(w) /\ TimesInHistory(i) = 1)
        /\ w.pc = "x_hook" =>
              (a.status = "cancelled" /\ ~C15_Sent(w) /\ TimesInHistory(i) = 1
               /\ a.messages_sent = <<>>)
        /\ w.pc = "reset" =>
              (a.status \in {"confirmed", "cancelled"} /\ TimesInHistory(i) = 1
               /\ (C15_Sent(w) <=> a.status = "confirmed"))

C15_LifecycleOrdered ==
    \A i \in DOMAIN loops :
        loops[i].pc \notin {"unborn", "done"} => (i \in DOMAIN alerts /\ C15_StageOf(i))

C15_Witness ==
    \E i \in DOMAIN loops :
        /\ loops[i].pc = "k_hooks" /\ loops[i].resolution = "confirmed"
        /\ i \in DOMAIN alerts /\ alerts[i].messages_sent # <<>>
        /\ LastInHistory(i) /\ i = 2

\* C16: a failing collaborator does not end an operation of the orchestrator
\* or the confirmation thread abnormally. A lookup whose providers all fail
\* gives a null location and the trigger goes on to create the alert; a
\* gateway failure gives a failed MessageResult carrying the error; after a
\* raising lifecycle hook the thread goes on to its reset; every trigger_*
\* call ends by returning a Boolean, and a thread ends only through
\* _reset_emergency_state.
C16_FailuresAreValues ==
    /\ obs.lookup # NoneOpt =>
          /\ \A t \in callers : tpc[t] = "a_locate" => FALSE
          /\ (obs.lookup[1].nq > 0 /\ \A k \in DOMAIN obs.lookup[1].resps :
                                          ~obs.lookup[1].resps[k].ok)
                 => obs.lookup[1].result = NoneOpt
    /\ \A i \in DOMAIN alerts : \A j \in DOMAIN alerts[i].messages_sent :
          LET r == alerts[i].messages_sent[j]
          IN  \/ r.success /\ r.error = "None"
              \/ ~r.success /\ r.error \in {"TwilioException", "Exception"}
                 /\ r.delivery_status = "failed" /\ twilio_client
    /\ \A i \in DOMAIN loops : loops[i].raised => loops[i].pc = "reset"

C16_OperationsComplete ==
    /\ \A i \in DOMAIN loops :
          (loops[i].pc # "done" /\ loops'[i].pc = "done") =>
              (loops[i].pc = "reset" /\ ~is_active')
    /\ \A t \in callers :
          /\ (tpc[t] \notin {"idle", "c_set", "x_set"} /\ tpc'[t] = "idle") =>
                 (tret'.who = t /\ tret'.value \in BOOLEAN)
          /\ (tpc[t] = "a_locate" /\ tpc'[t] # "a_locate") => tpc'[t] = "a_create"
          /\ (tpc[t] = "a_create" /\ tpc'[t] # "a_create") =>
                 (tpc'[t] = "start_thread" /\ Len(alerts') = Len(alerts) + 1)

C16_NoExceptionEscapes == [](C16_FailuresAreValues) /\ [][C16_OperationsComplete]_vars

C16_Witness ==
    \E i \in DOMAIN loops :
        /\ loops[i].raised /\ loops[i].pc = "reset" /\ i \in DOMAIN alerts
        /\ alerts[i].location = NoneOpt
        /\ alerts[i].messages_sent # <<>>
        /\ alerts[i].messages_sent[1].error = "Exception"

\* C17: confirm_emergency and cancel_emergency called while the machine is
\* Idle change nothing: the call goes to its warning and returns, with
\* is_active, the flags, the start time, the alerts, current_alert,
\* alert_history and the callbacks invoked so far as they were; and a window
\* on which no call was made during its own time is resolved by the timeout
\* only.
C17_CallAt(t) ==
    tpc[t] = "idle" /\ tpc'[t] \in {"c_set", "x_set", "c_warn", "x_warn"}

C17_NothingChanges ==
    /\ UNCHANGED <<is_active, emergency_confirmed, emergency_cancelled,
                   emergency_start_time, alerts, current_alert, alert_history,
                   msg_results, cache_file, tret, obs>>
    /\ Len(loops') = Len(loops)
    /\ \A i \in DOMAIN loops :
          /\ loops'[i].called = loops[i].called
          /\ loops'[i].resolution = loops[i].resolution
          /\ loops'[i].pc = loops[i].pc

C17_IdleCallStep ==
    \A t \in callers :
        /\ (~is_active /\ C17_CallAt(t)) =>
               (tpc'[t] \in {"c_warn", "x_warn"} /\ C17_NothingChanges)
        /\ (tpc[t] \in {"c_warn", "x_warn"} /\ tpc'[t] # tpc[t]) =>
               (tpc'[t] = "idle" /\ C17_NothingChanges)

C17_Untouched ==
    \A i \in DOMAIN loops :
        (loops[i].calls = {} /\ loops[i].first = "none" /\ loops[i].pc # "done")
            => loops[i].resolution \in {"none", "timeout"}

C17_IdleCallsAreNoOps == [](C17_Untouched) /\ [][C17_IdleCallStep]_vars

\* a call returns from its warning on an idle machine, after one alert; and a
\* second alert, triggered after such calls could be made, times out
C17_Witness ==
    /\ \E t \in callers : tpc[t] \in {"c_warn", "x_warn"}
    /\ ~is_active /\ Len(loops) = 1 /\ loops[1].pc = "done"
    /\ alert_history = <<1>>

\* C18: a cancel_emergency that arrives after the loop has chosen the
\* confirmation path (by confirm_emergency or by the timeout) changes nothing
\* of the alert: the outcome stays confirmed, on_cancellation is not invoked,
\* the dispatch and the append to alert_history take place as without it, and
\* the call returns.
C18_LateCancel(w) ==
    /\ w.pc \in {"k_check", "k_send", "k_hist", "k_hooks", "reset"}
    /\ "cancel" \notin w.calls
    /\ emergency_cancelled

C18_OutcomeStays ==
    \A i \in DOMAIN loops :
        C18_LateCancel(loops[i]) =>
            /\ loops[i].resolution \in {"confirmed", "timeout"}
            /\ ~HasPiece(loops[i].called, "on_cancellation")
            /\ alerts[i].status = (IF loops[i].pc = "k_check" THEN "pending" ELSE "confirmed")
            /\ C15_Sent(loops[i]) <=> loops[i].pc \in {"k_hist", "k_hooks", "reset"}
            /\ TimesInHistory(i) = (IF loops[i].pc \in {"k_hooks", "reset"} THEN 1 ELSE 0)
            /\ loops[i].pc \in {"k_hist", "k_hooks", "reset"} =>
                   Len(alerts[i].messages_sent) = Cardinality(C7_EnabledAt(contacts))

C18_CancelStep ==
    \A t \in callers :
        (tpc[t] = "x_set" /\ tpc'[t] # "x_set"
         /\ \E i \in DOMAIN loops : loops[i].resolution \in {"confirmed", "timeout"}
                                    /\ loops[i].pc # "done") =>
            /\ tpc'[t] = "idle"
            /\ UNCHANGED <<alerts, current_alert, alert_history, loops, msg_results,
                           is_active, emergency_confirmed>>

C18_LateCancelIsNoOp == [](C18_OutcomeStays) /\ [][C18_CancelStep]_vars

C18_Witness ==
    \E i \in DOMAIN loops :
        /\ C18_LateCancel(loops[i]) /\ loops[i].pc = "reset"
        /\ loops[i].resolution = "timeout"
        /\ LastInHistory(i) /\ alerts[i].messages_sent # <<>>

\* C19: trigger_voice_emergency returns true exactly when the lower-cased text
\* has one of the emergency keywords as a substring (the call then goes on to
\* the busy check, and returns true whether or not a window is started); for a
\* text without keyword it returns false and changes nothing else. Likewise
\* trigger_gesture_emergency goes on only for 'two_fingers'.
C19_Keyword(text) ==
    \E k \in DOMAIN EmergencyKeywords : \E i \in DOMAIN text, j \in DOMAIN text :
        [n \in 1..(j - i + 1) |-> Lower(text[i + n - 1])] = EmergencyKeywords[k]

C19_GoesOn(t) ==
    \/ tpc'[t] = "h_active" /\ tret' = tret
    \/ tpc'[t] = "idle" /\ tret' = [who |-> t, value |-> TRUE, rejected |-> TRUE]

C19_ReturnsFalse(t) ==
    /\ tpc'[t] = "idle" /\ tret' = [who |-> t, value |-> FALSE, rejected |-> FALSE]
    /\ UNCHANGED <<is_active, emergency_confirmed, emergency_cancelled,
                   emergency_start_time, loops, alerts, current_alert, alert_history,
                   obs, msg_results>>

C19_TriggerStep ==
    \A t \in callers :
        /\ \A text \in Texts :
              TriggerVoiceEmergency(t, text) =>
                  IF C19_Keyword(text) THEN C19_GoesOn(t) ELSE C19_ReturnsFalse(t)
        /\ \A g \in GestureTypes :
              TriggerGestureEmergency(t, g) =>
                  IF g = "two_fingers" THEN C19_GoesOn(t) ELSE C19_ReturnsFalse(t)
        /\ (tpc[t] = "start_thread" /\ tpc'[t] = "idle") =>
              tret' = [who |-> t, value |-> TRUE, rejected |-> FALSE]

C19_KeywordTriggers == [][C19_TriggerStep]_vars

\* a call without keyword (or with another gesture) has returned false on an
\* idle machine that has not seen any window
C19_Witness ==
    /\ tret.who = "api" /\ ~tret.value
    /\ ~is_active /\ loops = <<>> /\ obs.on_emergency = 0

\* C20: the results of send_emergency_message, which are in the order of the
\* delivery attempts, are in ascending priority: a contact with a smaller
\* priority number never comes after one with a larger number.
C20_PriorityOrder ==
    obs.sent # NoneOpt =>
        \A j \in DOMAIN msg_results : \A k \in DOMAIN msg_results :
            j < k => obs.sent[1].contacts[msg_results[j].to].priority
                         <= obs.sent[1].contacts[msg_results[k].to].priority

\* a lookup is being made in this step
C21_Lookup == obs'.lookup # NoneOpt /\ obs'.lookup # obs.lookup

\* a thread has chosen the confirmation path and has not sent yet
C21_ConfirmedUnsent(w) ==
    w.resolution \in {"confirmed", "timeout"} /\ w.pc \in {"k_check", "k_send"}

\* C21 as stated: the location service is asked after the resolution and
\* before the dispatch, not at trigger time.
C21_LookupAtConfirmation ==
    [][C21_Lookup => \E i \in DOMAIN loops : C21_ConfirmedUnsent(loops[i])]_vars

\* what a message says about the location stored in an alert
C21_LocationText(a) == IF a.location = NoneOpt THEN "Location unknown" ELSE a.location[1].address

\* What the orchestrator does instead: the location service is asked once per
\* alert, at trigger time, before the alert is created; the alert keeps that
\* location, the steps of the confirmation thread ask nothing and leave the
\* cache alone, and the messages carry the location stored in the alert.
C21_LookupStep ==
    /\ C21_Lookup =>
          \E t \in callers :
              /\ tpc[t] = "a_locate" /\ tpc'[t] = "a_create"
              /\ tloc'[t] = obs'.lookup[1].result
              /\ Len(alerts) < twin[t] /\ loops[twin[t]].pc = "unborn"
    /\ ~C21_Lookup => cache_file' = cache_file
    /\ \A i \in DOMAIN alerts : alerts'[i].location = alerts[i].location
    /\ \A i \in DOMAIN loops : loops'[i].pc # loops[i].pc => cache_file' = cache_file

C21_MessagesCarryStored ==
    /\ \A t \in callers :
          tpc[t] = "start_thread" => alerts[twin[t]].location = tloc[t]
    /\ \A i \in DOMAIN alerts : \A m \in DOMAIN alerts[i].messages_sent :
          HasPiece(alerts[i].messages_sent[m].body, C21_LocationText(alerts[i]))

C21_LookupAtTrigger == [](C21_MessagesCarryStored) /\ [][C21_LookupStep]_vars

\* an alert whose lookup failed at trigger time is sent without a location
\* although the location service has an answer by then
C21_StaleLocationSent ==
    \E i \in DOMAIN loops :
        /\ loops[i].pc = "k_hist" /\ i \in DOMAIN alerts
        /\ alerts[i].location = NoneOpt /\ cache_file = NoneOpt
        /\ alerts[i].messages_sent # <<>>
        /\ HasPiece(alerts[i].messages_sent[1].body, "Location unknown")

\* a thread has chosen its resolution and its callback has not returned, or
\* its reset is still to come
C22_InCallback(w) == w.resolution # "none" /\ w.pc # "done"

\* C22: a trigger that arrives while the callback of the previous alert is
\* running is refused and changes nothing; a trigger is accepted only when
\* every earlier thread has passed its reset; and the gate is_active is closed
\* for as long as a thread has not passed its reset.
C22_TriggerStep ==
    \A t \in callers :
        /\ (tpc[t] = "idle" /\ tpc'[t] = "h_active") =>
               (~is_active /\ \A i \in DOMAIN loops : loops[i].pc = "done")
        /\ (TriggerCall(t) /\ \E i \in DOMAIN loops : C22_InCallback(loops[i])) =>
               /\ tpc'[t] = "idle" /\ tret'.who = t /\ tret'.rejected
               /\ UNCHANGED <<loops, alerts, current_alert, alert_history, is_active,
                              emergency_start_time, emergency_confirmed,
                              emergency_cancelled, obs, msg_results>>

C22_GateClosed ==
    /\ \A i \in DOMAIN loops : loops[i].pc # "done" => is_active
    /\ Cardinality({i \in DOMAIN loops : loops[i].pc # "done"}) <= 1

C22_NoTriggerBeforeReset == [](C22_GateClosed) /\ [][C22_TriggerStep]_vars

\* a trigger was refused and the thread of the first alert is in its handler,
\* after the dispatch
C22_Witness ==
    /\ Len(loops) = 1 /\ loops[1].pc = "k_hist" /\ loops[1].resolution = "timeout"
    /\ tret.rejected /\ tret.who = "api" /\ tpc["api"] = "idle"
    /\ Len(alerts) = 1

\* C23: no step changes an alert that is in alert_history, and no step changes
\* or removes an entry of alert_history: status, confirmed, location and
\* messages_sent of an entry stay what they were when it was appended.
C23_HistoryStep ==
    /\ Len(alert_history') >= Len(alert_history)
    /\ \A k \in DOMAIN alert_history :
          /\ alert_history'[k] = alert_history[k]
          /\ alert_history[k] # 0 =>
                 alerts'[alert_history[k]] = alerts[alert_history[k]]

C23_HistoryImmutable == [][C23_HistoryStep]_vars

\* a cancelled alert is in the history and a later alert was confirmed, sent
\* and appended after it
C23_Witness ==
    /\ alert_history = <<1, 2>>
    /\ alerts[1].status = "cancelled" /\ alerts[1].messages_sent = <<>>
    /\ alerts[2].status = "confirmed" /\ alerts[2].messages_sent # <<>>
    /\ loops[2].pc = "done"

\* C24: when the 'emergency_alert' template is not among the loaded templates
\* send_emergency_message still gives one result per enabled contact, each
\* with a message body.
C24_SentWithoutTemplate ==
    (obs.sent # NoneOpt /\ "emergency_alert" \notin DOMAIN obs.sent[1].templates) =>
        /\ {msg_results[j].to : j \in DOMAIN msg_results}
               = {k \in DOMAIN obs.sent[1].contacts : obs.sent[1].contacts[k].enabled}
        /\ \A j \in DOMAIN msg_results : msg_results[j].body # <<>>

\* C25: get_system_status and get_alert_history only read: they leave the
\* trigger state, the alerts, current_alert, alert_history and the location
\* cache as they were and ask no provider.
C25_ReadOnly ==
    UNCHANGED <<is_active, emergency_start_time, emergency_confirmed,
                emergency_cancelled, loops, alerts, current_alert, alert_history,
                cache_file, msg_results>>

C25_QueryStep ==
    \A t \in callers :
        /\ (\E resps \in OrchAnswers : GetSystemStatus(t, resps)) =>
               (C25_ReadOnly /\ obs'.out[1].lookups = 0)
        /\ GetAlertHistory(t) => C25_ReadOnly

C25_QueriesReadOnly == [][C25_QueryStep]_vars

\* C26: a lifecycle hook that raises does not cut the step short: the
\* bookkeeping of the step is still completed. For a cancellation this means
\* that once the handler has returned (the window is at its reset), the
\* cancelled alert is in the history and current_alert is None, whether or
\* not on_alert_cancelled raised.
C26_CancellationCompleted(i) ==
    /\ current_alert = 0
    /\ i \in DOMAIN alerts => InHistory(i)

C26_HooksIsolated ==
    \A i \in DOMAIN loops :
        (loops[i].resolution = "cancelled" /\ loops[i].pc = "reset") =>
            C26_CancellationCompleted(i)

\* what holds instead: the step is completed when the hook returned normally,
\* and the history entry is written before the hook in every case
C26_CompletedUnlessRaised ==
    \A i \in DOMAIN loops :
        (loops[i].resolution = "cancelled" /\ loops[i].pc = "reset") =>
            /\ i \in DOMAIN alerts => InHistory(i)
            /\ ~loops[i].raised => current_alert = 0

C26_AlertLeftCurrent ==
    \E i \in DOMAIN loops :
        /\ loops[i].resolution = "cancelled" /\ loops[i].pc = "reset"
        /\ loops[i].raised /\ current_alert = i /\ alerts[i].status = "cancelled"

\* The trigger system as main.py drives it: one thread triggers (the speech
\* callback or the gesture callback), another one confirms or cancels
TriggerRoleStep(t) ==
    \/ \E text \in Texts : TriggerVoiceEmergency(t, text)
    \/ \E g \in GestureTypes : TriggerGestureEmergency(t, g)
    \/ SetActive(t)
    \/ SetWindowState(t)
    \/ StartThread(t)

AnswerRoleStep(t) ==
    \/ ConfirmEmergency(t)
    \/ ConfirmSet(t)
    \/ CancelEmergency(t)
    \/ CancelSet(t)

NextRoles ==
    \/ \E t \in AllCallers : TriggerRoleStep(t)
    \/ \E t \in AllCallers : AnswerRoleStep(t)
    \/ \E t \in AllCallers, raises \in BOOLEAN : OnEmergencyCallback(t, raises)
    \/ \E i \in DOMAIN loops : LoopStep(i)
    \/ \E i \in DOMAIN loops, raises \in BOOLEAN : ResolutionCallback(i, raises)
    \/ TimeoutPasses

SpecRoles == InitTrig /\ [][NextRoles]_vars

\* a window that its loop resolved as confirmed (cancelled) had
\* confirm_emergency (cancel_emergency) called while it was open, that is,
\* after its own trigger had set is_active
C27_ResolvedByOwnCall(w) ==
    /\ w.resolution = "confirmed" => "confirm" \in w.calls
    /\ w.resolution = "cancelled" => "cancel" \in w.calls

\* C27: a confirm_emergency or cancel_emergency call made against one alert
\* never resolves a later one: under every interleaving of the caller (test of
\* is_active, then the assignment of the flag), the loop's reset and a next
\* trigger, a window is resolved as confirmed or cancelled only by a call made
\* while it was open. Checked with a single triggering thread, so that two
\* triggers admitted at once are not what is at issue.
C27_NoStaleResolution ==
    \A i \in DOMAIN loops : loops[i].pc # "done" => C27_ResolvedByOwnCall(loops[i])

\* the later window, resolved by the flag of a call that was between its test
\* and its assignment when the window opened
C27_ResolvedByStaleCall ==
    \E i \in DOMAIN loops :
        /\ i > 1 /\ loops[i].pc # "done" /\ loops[i].first = "stale"
        /\ loops[i].calls = {} /\ loops[i].resolution \in {"confirmed", "cancelled"}
        /\ loops[i - 1].pc = "done"

\* C28: messages are dispatched only for an alert that resolved through the
\* confirmation path (confirm_emergency or the timeout), and at most once per
\* alert: send_emergency_message is not called while the alert awaits its
\* confirmation nor for an alert resolved by cancellation, every call of it is
\* made by the confirmation handler of the current, not yet recorded alert,
\* and no alert is in alert_history more than once.
C28_Dispatches(w) ==
    Cardinality({k \in DOMAIN w.called : w.called[k] = "send_emergency_message"})

C28_DispatchedOnce ==
    /\ obs.sends = Cardinality({i \in DOMAIN loops : C28_Dispatches(loops[i]) > 0})
    /\ \A i \in DOMAIN loops :
          /\ C28_Dispatches(loops[i]) <= 1
          /\ C28_Dispatches(loops[i]) = 1 =>
                 /\ loops[i].resolution \in {"confirmed", "timeout"}
                 /\ alerts[i].status = "confirmed"
          /\ (Unresolved(loops[i]) \/ loops[i].resolution = "cancelled") =>
                 /\ C28_Dispatches(loops[i]) = 0
                 /\ i \in DOMAIN alerts => alerts[i].messages_sent = <<>>
    /\ \A a \in DOMAIN alerts :
          /\ TimesInHistory(a) <= 1
          /\ alerts[a].status \in {"pending", "cancelled"} => alerts[a].messages_sent = <<>>

C28_DispatchStep ==
    obs'.sends # obs.sends =>
        /\ obs'.sends = obs.sends + 1
        /\ current_alert # 0 /\ ~InHistory(current_alert)
        /\ loops[current_alert].pc = "k_send"
        /\ loops[current_alert].resolution \in {"confirmed", "timeout"}
        /\ alerts[current_alert].messages_sent = <<>>

C28_DispatchOnlyOnConfirmation == [](C28_DispatchedOnce) /\ [][C28_DispatchStep]_vars

\* two alerts resolved: the first cancelled and never sent, the second sent
\* once after the timeout, each once in the history
C28_Witness ==
    /\ Len(loops) = 2 /\ obs.sends = 1 /\ alert_history = <<1, 2>>
    /\ loops[1].resolution = "cancelled" /\ alerts[1].messages_sent = <<>>
    /\ loops[2].resolution = "timeout" /\ alerts[2].messages_sent # <<>>
    /\ loops[2].pc = "reset"

\* the handler of the window has recorded its alert
C29_Recorded(w) == w.resolution # "none" /\ w.pc \in {"k_hooks", "x_hook", "reset", "done"}

C29_Resolutions == Cardinality({i \in DOMAIN loops : C29_Recorded(loops[i])})

C29_Entries ==
    /\ \A k \in DOMAIN alert_history :
          /\ alert_history[k] \in DOMAIN alerts
          /\ LET a == alerts[alert_history[k]]
             IN  /\ a.status \in {"confirmed", "cancelled"}
                 /\ a.status = "cancelled" => (~a.confirmed /\ a.messages_sent = <<>>)
                 /\ a.status = "confirmed" => a.confirmed
    /\ Len(alert_history) = C29_Resolutions
    /\ \A i \in DOMAIN loops : C29_Recorded(loops[i]) => InHistory(i)

C29_GrowthStep ==
    /\ alert_history' # alert_history =>
          \E i \in DOMAIN loops :
              /\ alert_history' = Append(alert_history, i)
              /\ loops[i].pc \in {"k_hist", "x_mark"} /\ ~InHistory(i)
              /\ C29_Recorded(loops'[i])
    /\ \A t \in callers :
          (\E resps \in OrchAnswers : GetSystemStatus(t, resps)) =>
              obs'.out[1].total_alerts = C29_Resolutions

\* C29: in every reachable state every entry of alert_history has status
\* "confirmed" or "cancelled", never "pending"; a cancelled entry has
\* confirmed = false and no messages_sent, a confirmed entry has
\* confirmed = true; alert_history only grows, by one entry per resolved
\* alert, and total_alerts of get_system_status is the number of alerts
\* resolved so far.
C29_HistoryWellFormed == [](C29_Entries) /\ [][C29_GrowthStep]_vars

\* a status query has just returned with two alerts recorded, the first
\* cancelled, the second confirmed and sent
C29_Witness ==
    /\ \E t \in callers : tpc[t] = "q_return"
    /\ obs.out # NoneOpt /\ Len(alert_history) = 2
    /\ alerts[alert_history[1]].status = "cancelled"
    /\ alerts[alert_history[2]].status = "confirmed"
    /\ alerts[alert_history[2]].messages_sent # <<>>
    /\ \A i \in DOMAIN loops : loops[i].pc = "done"

\* C30: alert ids are unique: any two distinct alerts the orchestrator has
\* created, and hence any two entries of alert_history, have different
\* alert_id values, also when an alert is triggered and cancelled and the next
\* one is triggered within the same second of the clock.
C30_UniqueAlertIds ==
    /\ \A i, j \in DOMAIN alerts : i # j => alerts[i].alert_id # alerts[j].alert_id
    /\ \A k, m \in DOMAIN alert_history :
          k # m => alerts[alert_history[k]].alert_id # alerts[alert_history[m]].alert_id

\* two alerts of the same second, both in the history under one id
C30_SameSecondIds ==
    /\ Len(alerts) = 2 /\ alert_history = <<1, 2>>
    /\ alerts[1].alert_id = alerts[2].alert_id
    /\ alerts[1].status = "cancelled"

====
